---- MODULE Spec2Model ----
(***************************************************************************)
(* Model of the Autostrada worker (wiphala-plugin-autostrada).             *)
(*                                                                         *)
(*   SpecMerge : mergeFiles / deepMerge of src/utils/files.ts, run one     *)
(*               forEach iteration at a time over a list of file texts.    *)
(*   Spec      : AppService (performTask, collect, process) with           *)
(*               runPageSpeedInsights and mergeOutputFiles: every provider *)
(*               call, storage get and storage put settles as a step of    *)
(*               its own, in any order, and at most MaxFailures fail.      *)
(*   SpecPartition : the reduce of process over lists of references.       *)
(*   SpecRepeat : Spec on a collect followed by its process twice.         *)
(*   SpecExtract : extractLighthouseSummary on one report, followed by a   *)
(*               write through one of the objects of the summary; the      *)
(*               objects the summary holds by reference are tracked.       *)
(*                                                                         *)
(* JSON values are modelled with value semantics:                          *)
(*   leaf : [k |-> "leaf", v |-> "null" | "true" | "false"]                *)
(*   num  : [k |-> "num",  v |-> the number in hundredths]                 *)
(*   str  : [k |-> "str",  v |-> the string as a sequence of pieces]       *)
(*   arr  : [k |-> "arr",  v |-> << elements, own non-index properties >>] *)
(*   obj  : [k |-> "obj",  v |-> << <<key, value>>, ... >>] in insertion   *)
(*          order (the order Object.keys iterates).                        *)
(* A text (file content, storage body) is a sequence of JSON lexemes.      *)
(***************************************************************************)
EXTENDS Integers, Sequences, FiniteSets, TLC

\* ------------------------------------------------------------------ bounds

\* Longest list of file contents handed to mergeFiles in SpecMerge.
MaxFiles == 3

\* ------------------------------------------------------------- JSON values

Undefined == [k |-> "undef", v |-> <<>>]

Leaf(lit) == [k |-> "leaf", v |-> lit]

\* A number, held in hundredths: Num(87) is 0.87 and Num(100) is 1.
Num(h) == [k |-> "num", v |-> h]

Whole(n) == Num(100 * n)

\* A string, held as the sequence of its pieces: Str(<<>>) is "".
Str(pieces) == [k |-> "str", v |-> pieces]

Arr(elems) == [k |-> "arr", v |-> <<elems, <<>>>>]

Obj(entries) == [k |-> "obj", v |-> entries]

EmptyObject == Obj(<<>>)

Null == Leaf("null")

ScalarLiterals == {"null", "true", "false"}

Punctuation == {"{", "}", "[", "]", ":", ",", "\""}

\* A scalar or null: what is neither an array nor an object.
IsLeaf(v) == v.k \in {"leaf", "num", "str"}

IsArray(v) == v.k = "arr"

\* typeof v === 'object' && v !== null && !Array.isArray(v)
IsNonArrayObject(v) == v.k = "obj"

\* A primitive: a property cannot be created on it (strict mode throws).
IsPrimitive(v) == v.k \in {"leaf", "num", "str"}

\* What a condition takes for true: not undefined, null, false, 0 or "".
Truthy(v) == CASE v.k = "undef" -> FALSE
               [] v.k = "leaf" -> v.v = "true"
               [] v.k = "num" -> v.v # 0
               [] v.k = "str" -> v.v # <<>>
               [] OTHER -> TRUE

\* The own enumerable string-keyed properties other than array indices.
Entries(v) == CASE v.k = "obj" -> v.v
                [] v.k = "arr" -> v.v[2]
                [] OTHER -> <<>>

KeysOf(v) == {Entries(v)[i][1] : i \in 1..Len(Entries(v))}

HasKey(v, key) == key \in KeysOf(v)

\* v[key]; undefined when absent (property names of the built-in prototypes
\* are outside the key alphabet).
Get(v, key) == IF HasKey(v, key)
                 THEN LET i == CHOOSE j \in 1..Len(Entries(v)) : Entries(v)[j][1] = key
                      IN Entries(v)[i][2]
                 ELSE Undefined

SetEntry(entries, key, val) == IF \E i \in 1..Len(entries) : entries[i][1] = key
                 THEN [i \in 1..Len(entries) |-> IF entries[i][1] = key THEN <<key, val>> ELSE entries[i]]
                 ELSE Append(entries, <<key, val>>)

\* v[key] = val on an object or an array: an existing key keeps its place,
\* a new key goes last.
Set(v, key, val) == IF v.k = "arr"
                 THEN [k |-> "arr", v |-> <<v.v[1], SetEntry(v.v[2], key, val)>>]
                 ELSE Obj(SetEntry(v.v, key, val))

\* ------------------------------------------------------------- deepMerge

RECURSIVE deepMergeFrom(_, _, _)
\* deepMerge without the `source[key] &&` test: typeof null is 'object', so a
\* null in the source is recursed into and Object.keys(null) throws.
deepMergeFromNullAsObject(target, source, i) ==
  IF i > Len(Entries(source))
    THEN [val |-> target, thrown |-> FALSE]
    ELSE LET key == Entries(source)[i][1]
             sv  == Entries(source)[i][2]
         IN IF sv = Null \/ IsNonArrayObject(sv)
              THEN IF ~Truthy(Get(target, key)) /\ IsPrimitive(target)
                     THEN [val |-> target, thrown |-> TRUE]
                     ELSE LET t1  == IF ~Truthy(Get(target, key))
                                       THEN Set(target, key, EmptyObject)
                                       ELSE target
                              sub == IF sv = Null
                                       THEN [val |-> Get(t1, key), thrown |-> TRUE]
                                       ELSE deepMergeFrom(Get(t1, key), sv, 1)
                              t2  == Set(t1, key, sub.val)
                          IN IF sub.thrown
                               THEN [val |-> t2, thrown |-> TRUE]
                               ELSE deepMergeFrom(t2, source, i + 1)
              ELSE IF IsPrimitive(target)
                     THEN [val |-> target, thrown |-> TRUE]
                     ELSE deepMergeFrom(Set(target, key, sv), source, i + 1)

\* The for-loop of deepMerge from the i-th key of source on. The result is
\* the target as the loop left it and whether a TypeError ended the loop:
\* the target is mutated in place, so what was merged before the throw stays.
deepMergeFrom(target, source, i) ==
  IF i > Len(Entries(source))
    THEN [val |-> target, thrown |-> FALSE]
    ELSE LET key == Entries(source)[i][1]
             sv  == Entries(source)[i][2]
         IN IF Truthy(sv) /\ IsNonArrayObject(sv)
              THEN IF ~Truthy(Get(target, key)) /\ IsPrimitive(target)
                     THEN [val |-> target, thrown |-> TRUE]
                     ELSE LET t1  == IF ~Truthy(Get(target, key))
                                       THEN Set(target, key, EmptyObject)
                                       ELSE target
                              sub == deepMergeFrom(Get(t1, key), sv, 1)
                              t2  == Set(t1, key, sub.val)
                          IN IF sub.thrown
                               THEN [val |-> t2, thrown |-> TRUE]
                               ELSE deepMergeFrom(t2, source, i + 1)
              ELSE IF IsPrimitive(target)
                     THEN [val |-> target, thrown |-> TRUE]
                     ELSE deepMergeFrom(Set(target, key, sv), source, i + 1)

\* deepMerge(target, source): Object.keys(null) throws before the loop.
deepMerge(target, source) ==
  IF source = Null \/ source = Undefined
    THEN [val |-> target, thrown |-> TRUE]
    ELSE deepMergeFrom(target, source, 1)

\* ------------------------------------------------- JSON.stringify / parse

\* A number as JSON writes it: 87 hundredths is 0.87, 250 is 2.5, 300 is 3.
FormatNum(h) ==
  IF h % 100 = 0 THEN ToString(h \div 100)
  ELSE IF h % 10 = 0 THEN ToString(h \div 100) \o "." \o ToString((h % 100) \div 10)
  ELSE ToString(h \div 100) \o "." \o ToString((h % 100) \div 10) \o ToString(h % 10)

\* The numbers a text of the model can hold.
Numbers == {h \in 0..10000 : h <= 200 \/ h % 100 = 0}

\* The number a numeric lexeme denotes.
NumberOf == [t \in {FormatNum(h) : h \in Numbers} |-> CHOOSE h \in Numbers : FormatNum(h) = t]

RECURSIVE JSONstringify(_), StringifyElements(_, _), StringifyMembers(_, _)
StringifyElements(elems, i) ==
  IF i > Len(elems) THEN <<>>
  ELSE (IF i > 1 THEN <<",">> ELSE <<>>) \o JSONstringify(elems[i]) \o StringifyElements(elems, i + 1)

\* A property whose value is undefined is left out.
StringifyMembers(entries, i) ==
  IF i > Len(entries) THEN <<>>
  ELSE IF entries[i][2].k = "undef" THEN StringifyMembers(entries, i + 1)
  ELSE LET rest == StringifyMembers(entries, i + 1)
       IN <<entries[i][1], ":">> \o JSONstringify(entries[i][2])
            \o (IF rest = <<>> THEN <<>> ELSE <<",">> \o rest)

\* An array is written by its elements alone: its other properties are dropped.
JSONstringify(v) ==
  CASE v.k = "leaf" -> <<v.v>>
    [] v.k = "num" -> <<FormatNum(v.v)>>
    [] v.k = "str" -> <<"\"">> \o v.v \o <<"\"">>
    [] v.k = "arr" -> <<"[">> \o StringifyElements(v.v[1], 1) \o <<"]">>
    [] v.k = "obj" -> <<"{">> \o StringifyMembers(v.v, 1) \o <<"}">>
    [] OTHER -> <<>>

ParseFail == [ok |-> FALSE, val |-> Undefined, next |-> 0]

RECURSIVE ParseString(_, _, _)
\* The pieces from the i-th lexeme up to the closing quote.
ParseString(t, i, acc) ==
  IF i > Len(t) THEN ParseFail
  ELSE IF t[i] = "\"" THEN [ok |-> TRUE, val |-> Str(acc), next |-> i + 1]
  ELSE ParseString(t, i + 1, Append(acc, t[i]))

RECURSIVE ParseValue(_, _), ParseMembers(_, _, _), ParseElements(_, _, _)
\* A key is one lexeme, standing for the quoted key.
ParseMembers(t, i, acc) ==
  IF i + 1 > Len(t) \/ t[i] \in Punctuation \/ t[i + 1] # ":"
    THEN ParseFail
    ELSE LET r == ParseValue(t, i + 2)
         IN IF ~r.ok \/ r.next > Len(t) THEN ParseFail
            ELSE IF t[r.next] = "}"
                   THEN [ok |-> TRUE, val |-> Obj(SetEntry(acc, t[i], r.val)), next |-> r.next + 1]
            ELSE IF t[r.next] = ","
                   THEN ParseMembers(t, r.next + 1, SetEntry(acc, t[i], r.val))
            ELSE ParseFail

ParseElements(t, i, acc) ==
  LET r == ParseValue(t, i)
  IN IF ~r.ok \/ r.next > Len(t) THEN ParseFail
     ELSE IF t[r.next] = "]"
            THEN [ok |-> TRUE, val |-> Arr(Append(acc, r.val)), next |-> r.next + 1]
     ELSE IF t[r.next] = ","
            THEN ParseElements(t, r.next + 1, Append(acc, r.val))
     ELSE ParseFail

ParseValue(t, i) ==
  IF i > Len(t) THEN ParseFail
  ELSE IF t[i] \in ScalarLiterals THEN [ok |-> TRUE, val |-> Leaf(t[i]), next |-> i + 1]
  ELSE IF t[i] \in DOMAIN NumberOf THEN [ok |-> TRUE, val |-> Num(NumberOf[t[i]]), next |-> i + 1]
  ELSE IF t[i] = "\"" THEN ParseString(t, i + 1, <<>>)
  ELSE IF t[i] = "{"
         THEN IF i + 1 <= Len(t) /\ t[i + 1] = "}"
                THEN [ok |-> TRUE, val |-> EmptyObject, next |-> i + 2]
                ELSE ParseMembers(t, i + 1, <<>>)
  ELSE IF t[i] = "["
         THEN IF i + 1 <= Len(t) /\ t[i + 1] = "]"
                THEN [ok |-> TRUE, val |-> Arr(<<>>), next |-> i + 2]
                ELSE ParseElements(t, i + 1, <<>>)
  ELSE ParseFail

\* JSON.parse(text): ok is FALSE where JSON.parse throws a SyntaxError.
JSONparse(t) ==
  LET r == ParseValue(t, 1)
  IN IF r.ok /\ r.next = Len(t) + 1 THEN [ok |-> TRUE, val |-> r.val] ELSE [ok |-> FALSE, val |-> Undefined]

\* -------------------------------------------------------------- mergeFiles

\* mergeFile with a catch that starts the fold over.
mergeFileReset(mergedData, file) ==
  LET p == JSONparse(file)
  IN IF ~p.ok
       THEN [data |-> EmptyObject, failed |-> TRUE]
       ELSE LET r == deepMerge(mergedData, p.val)
            IN [data |-> r.val, failed |-> r.thrown]

\* One iteration of files.forEach in mergeFiles: the try block and its catch.
\* failed: the catch ran (console.error); data: mergedData afterwards.
mergeFile(mergedData, file) ==
  LET p == JSONparse(file)
  IN IF ~p.ok
       THEN [data |-> mergedData, failed |-> TRUE]
       ELSE LET r == deepMerge(mergedData, p.val)
            IN [data |-> r.val, failed |-> r.thrown]

RECURSIVE mergeFilesFrom(_, _, _)
mergeFilesFrom(mergedData, files, i) ==
  IF i > Len(files) THEN mergedData
  ELSE mergeFilesFrom(mergeFile(mergedData, files[i]).data, files, i + 1)

mergeFiles(files) == mergeFilesFrom(EmptyObject, files, 1)

\* ------------------------------------------------------- clock and keys

\* Days of 2024 and of 2025 before each month.
DaysBefore2024 == <<0, 31, 60, 91, 121, 152, 182, 213, 244, 274, 305, 335, 366>>

DaysBefore2025 == <<0, 31, 59, 90, 120, 151, 181, 212, 243, 273, 304, 334, 365>>

\* An instant is a count of hours since 2024-01-01T00:00Z, within 2024-2025.
YearOf(hours) == IF hours \div 24 < 366 THEN 2024 ELSE 2025

\* The month, 1 to 12, the instant falls in.
MonthOf(hours) ==
  LET day   == IF hours \div 24 < 366 THEN hours \div 24 ELSE hours \div 24 - 366
      table == IF hours \div 24 < 366 THEN DaysBefore2024 ELSE DaysBefore2025
  IN CHOOSE m \in 1..12 : table[m] <= day /\ day < table[m + 1]

\* new Date(): the instant, with the offset of the process's time zone (hours
\* that local time is ahead of UTC).
NewDate(instant, offset) == [time |-> instant, offset |-> offset]

getUTCFullYear(date) == YearOf(date.time)

getUTCMonth(date) == MonthOf(date.time) - 1

\* The month, 0 to 11, of the local time.
getMonth(date) == MonthOf(date.time + date.offset) - 1

\* The categories in ascending order of their names.
categoriesAscending == <<"accessibility", "best-practices", "performance", "seo">>

\* PageSpeed Insights categories.
categories == <<"performance", "seo", "accessibility", "best-practices">>

\* PageSpeed Insights strategies.
strategies == <<"mobile", "desktop">>

\* `scans/${date.getUTCFullYear()}/${date.getMonth() + 1}/`
scansPrefix(date) ==
  <<"scans/", ToString(getUTCFullYear(date)), "/", ToString(getMonth(date) + 1), "/">>

\* The key runPageSpeedInsights uploads to; slug is the pieces of the slug.
rawKey(date, slug, category, strategy) ==
  scansPrefix(date) \o slug \o <<".", category, ".", strategy, ".json">>

\* basePath of mergeOutputFiles.
basePath(date, slug, strategy) == scansPrefix(date) \o slug \o <<".", strategy>>

fullKey(base) == base \o <<".json">>

minKey(base) == base \o <<".min.json">>

\* current.includes(word), for a word that is one piece of the string.
includes(pieces, word) == \E i \in 1..Len(pieces) : pieces[i] = word

\* ----------------------------------------------- extractLighthouseSummary

Nullish(v) == v.k = "undef" \/ v = Null

\* a?.key
Opt(v, key) == IF Nullish(v) THEN Undefined ELSE Get(v, key)

\* a || b
OrElse(a, b) == IF Truthy(a) THEN a ELSE b

Elements(v) == IF v.k = "arr" THEN v.v[1] ELSE <<>>

\* items?.[0]
First(v) == IF Elements(v) = <<>> THEN Undefined ELSE Elements(v)[1]

\* The score left as the fraction the report holds.
Times100Unscaled(v) == IF v.k = "num" THEN v ELSE Null

\* x * 100 and x + y on numbers; anything else gives NaN, which JSON writes null.
Times100(v) == IF v.k = "num" THEN Num(v.v * 100) ELSE Null

Plus(a, b) == IF a.k = "num" /\ b.k = "num" THEN Num(a.v + b.v) ELSE Null

\* `${x}ms`
WithMs(v) == CASE v.k = "num" -> Str(<<FormatNum(v.v), "ms">>)
               [] v.k = "str" -> Str(v.v \o <<"ms">>)
               [] OTHER -> Str(<<v.k, "ms">>)

\* The audits whose details.type is the given type, in Object.keys order.
RECURSIVE AuditsOfType(_, _, _)
AuditsOfType(audits, type, i) ==
  IF i > Len(Entries(audits)) THEN <<>>
  ELSE (IF Opt(Get(Entries(audits)[i][2], "details"), "type") = Str(<<type>>)
          THEN <<Entries(audits)[i]>> ELSE <<>>) \o AuditsOfType(audits, type, i + 1)

opportunity(entry) ==
  Obj(<< <<"id", Str(<<entry[1]>>)>>,
         <<"title", Get(entry[2], "title")>>,
         <<"description", Get(entry[2], "description")>>,
         <<"savings", WithMs(OrElse(Get(Get(entry[2], "details"), "overallSavingsMs"), Num(0)))>> >>)

diagnostic(entry) ==
  Obj(<< <<"id", Str(<<entry[1]>>)>>,
         <<"title", Get(entry[2], "title")>>,
         <<"description", Get(entry[2], "description")>>,
         <<"details", Get(entry[2], "details")>> >>)

RECURSIVE totalTransferSize(_, _)
\* items.reduce((acc, item) => acc + (item.transferSize || 0), 0)
totalTransferSize(items, i) ==
  IF i = 0 THEN Num(0)
  ELSE Plus(totalTransferSize(items, i - 1), OrElse(Get(items[i], "transferSize"), Num(0)))

\* The key a resourceType names: a string of one piece is that piece.
TypeKey(v) == IF v.k = "str" /\ Len(v.v) = 1 THEN v.v[1] ELSE v.k

\* The reduce with the size of a type set to the size of its last item.
RECURSIVE breakdownLastSize(_, _)
breakdownLastSize(items, i) ==
  IF i = 0 THEN EmptyObject
  ELSE LET acc  == breakdownLastSize(items, i - 1)
           type == Get(items[i], "resourceType")
       IN IF ~Truthy(type) THEN acc
          ELSE LET key == TypeKey(type)
                   old == IF Truthy(Get(acc, key)) THEN Get(acc, key)
                          ELSE Obj(<< <<"size", Num(0)>>, <<"count", Num(0)>> >>)
               IN Set(acc, key,
                      Obj(<< <<"size", OrElse(Get(items[i], "transferSize"), Num(0))>>,
                             <<"count", Plus(Get(old, "count"), Num(100))>> >>))

\* items.reduce(..., {}): size and count per resourceType, untyped items skipped.
RECURSIVE breakdown(_, _)
breakdown(items, i) ==
  IF i = 0 THEN EmptyObject
  ELSE LET acc  == breakdown(items, i - 1)
           type == Get(items[i], "resourceType")
       IN IF ~Truthy(type) THEN acc
          ELSE LET key == TypeKey(type)
                   old == IF Truthy(Get(acc, key)) THEN Get(acc, key)
                          ELSE Obj(<< <<"size", Num(0)>>, <<"count", Num(0)>> >>)
               IN Set(acc, key,
                      Obj(<< <<"size", Plus(Get(old, "size"), OrElse(Get(items[i], "transferSize"), Num(0)))>>,
                             <<"count", Plus(Get(old, "count"), Num(100))>> >>))

\* Where extractLighthouseSummary throws a TypeError: a property read on
\* undefined or null, or reduce called on what is no array.
extractThrows(lhReport) ==
  LET audits == Get(lhReport, "audits")
      items  == Opt(Opt(Opt(audits, "resource-summary"), "details"), "items")
  IN \/ Nullish(audits)
     \/ Nullish(Get(lhReport, "environment"))
     \/ Nullish(Get(lhReport, "categories"))
     \/ Nullish(Get(lhReport, "configSettings"))
     \/ Nullish(Get(lhReport, "timing"))
     \/ \E key \in KeysOf(audits) : Nullish(Get(audits, key))
     \/ Truthy(items) /\ items.k # "arr"
     \/ \E i \in 1..Len(Elements(items)) : Nullish(Elements(items)[i])

\* The object literal extractLighthouseSummary returns, for a report on which
\* it does not throw.
simplifiedResult(lhReport, mode) ==
  LET audits      == Get(lhReport, "audits")
      cats        == Get(lhReport, "categories")
      metricsData == OrElse(First(Opt(Opt(Opt(audits, "metrics"), "details"), "items")), EmptyObject)
      rsItems     == Elements(OrElse(Opt(Opt(Opt(audits, "resource-summary"), "details"), "items"), Arr(<<>>)))
      numeric(id) == OrElse(Opt(Get(audits, id), "numericValue"), Num(0))
      score(id)   == Times100(OrElse(Opt(Get(cats, id), "score"), Num(0)))
      opps        == AuditsOfType(audits, "opportunity", 1)
      diags       == AuditsOfType(audits, "diagnostic", 1)
  IN Obj(<< <<"mode", Str(<<mode>>)>>,
            <<"lighthouseVersion", Get(lhReport, "lighthouseVersion")>>,
            <<"fetchTime", Get(lhReport, "fetchTime")>>,
            <<"runWarnings", OrElse(Get(lhReport, "runWarnings"), Arr(<<>>))>>,
            <<"userAgent", Get(Get(lhReport, "environment"), "networkUserAgent")>>,
            <<"url", Get(lhReport, "requestedUrl")>>,
            <<"finalUrl", Get(lhReport, "finalUrl")>>,
            <<"performance", score("performance")>>,
            <<"accessibility", score("accessibility")>>,
            <<"bestPractices", score("best-practices")>>,
            <<"seo", score("seo")>>,
            <<"timings", Obj(<< <<"TTFB", OrElse(Get(metricsData, "timeToFirstByte"), Num(0))>>,
                                <<"FCP", numeric("first-contentful-paint")>>,
                                <<"LCP", numeric("largest-contentful-paint")>>,
                                <<"DCL", OrElse(Get(metricsData, "observedDomContentLoaded"), Num(0))>>,
                                <<"SI", numeric("speed-index")>>,
                                <<"CLS", numeric("cumulative-layout-shift")>>,
                                <<"TBT", numeric("total-blocking-time")>>,
                                <<"TTI", numeric("interactive")>> >>)>>,
            <<"opportunities", Arr([i \in 1..Len(opps) |-> opportunity(opps[i])])>>,
            <<"diagnostics", Arr([i \in 1..Len(diags) |-> diagnostic(diags[i])])>>,
            <<"resourceSummary",
              Obj(<< <<"totalRequests", Num(100 * Len(rsItems))>>,
                     <<"totalTransferSize", totalTransferSize(rsItems, Len(rsItems))>>,
                     <<"breakdown", breakdown(rsItems, Len(rsItems))>> >>)>>,
            <<"config", Obj(<< <<"emulatedFormFactor", Get(Get(lhReport, "configSettings"), "emulatedFormFactor")>>,
                               <<"locale", Get(Get(lhReport, "configSettings"), "locale")>> >>)>>,
            <<"totalAuditTime", OrElse(Get(Get(lhReport, "timing"), "total"), Num(0))>> >>)

extractLighthouseSummary(lhReport, mode) ==
  IF extractThrows(lhReport)
    THEN [val |-> Undefined, thrown |-> TRUE]
    ELSE [val |-> simplifiedResult(lhReport, mode), thrown |-> FALSE]

\* ------------------------------------------------------ the audit provider

\* response.data.lighthouseResult of one call: the audit of one category, for
\* one strategy. Every call stamps its own fetchTime and scores its category.
lighthouseResult(url, category, strategy) ==
  Obj(<< <<"fetchTime", Str(<<"t-", category>>)>>,
         <<"requestedUrl", Str(url)>>,
         <<"environment", Obj(<< <<"networkUserAgent", Str(<<"ua">>)>> >>)>>,
         <<"categories", Obj(<< <<category, Obj(<< <<"score", Num(87)>> >>)>> >>)>>,
         <<"audits", Obj(<< <<category, Obj(<< <<"numericValue", Whole(12)>> >>)>> >>)>>,
         <<"configSettings", Obj(<< <<"emulatedFormFactor", Str(<<strategy>>)>> >>)>>,
         <<"timing", Obj(<< <<"total", Whole(3)>> >>)>> >>)

\* ------------------------------------------------- inputs of SpecMerge

N(n) == Whole(n)

\* The documents SpecMerge folds: scalars, null, arrays and nested objects
\* at the same keys, so shapes agree and disagree between documents.
MergeDocs ==
  { Obj(<< <<"a", N(1)>> >>),
    Obj(<< <<"a", N(2)>> >>),
    Obj(<< <<"a", Null>> >>),
    Obj(<< <<"a", Str(<<"v">>)>> >>),
    Obj(<< <<"a", Leaf("true")>> >>),
    Obj(<< <<"a", Arr(<<N(1), N(2)>>)>> >>),
    Obj(<< <<"a", Arr(<<N(3)>>)>> >>),
    Obj(<< <<"a", Obj(<< <<"x", N(1)>> >>)>> >>),
    Obj(<< <<"a", Obj(<< <<"y", N(2)>> >>)>> >>),
    Obj(<< <<"a", Obj(<< <<"x", Obj(<< <<"y", N(1)>> >>)>> >>)>> >>),
    Obj(<< <<"a", Obj(<< <<"x", Obj(<< <<"x", N(2)>> >>)>> >>)>> >>),
    Obj(<< <<"a", Obj(<< <<"x", Arr(<<N(1), N(2)>>)>> >>)>> >>),
    Obj(<< <<"a", Obj(<< <<"x", N(1)>> >>)>>, <<"b", N(2)>> >>),
    Obj(<< <<"b", N(1)>>, <<"a", N(5)>> >>),
    EmptyObject }

\* Texts that are no JSON document, and JSON documents that are no object.
OddTexts == { <<>>, <<"{", "a", ":", "1">>, <<"null">>, <<"1">> }

MergeTexts == {JSONstringify(d) : d \in MergeDocs} \cup OddTexts

RECURSIVE SeqsUpTo(_, _)
SeqsUpTo(S, n) ==
  IF n = 0 THEN {<<>>}
  ELSE LET shorter == SeqsUpTo(S, n - 1)
       IN shorter \cup {Append(s, x) : s \in shorter, x \in S}

\* ------------------------------------------------------------------ state

\* The fold of mergeFiles, one file at a time.
VARIABLES files, idx, mergedData, target0, source0, step, errors

\* The worker: the clock and time zone of the process, the task requests the
\* workflow engine sends and how far it got, the task in hand, the eight
\* provider branches of collect, the two consolidations of process, the
\* object store, and what went out: provider calls, reports, responses.
VARIABLES now, tz, ticks, script, sp, request, taskSt, taskError, executions,
          merges, store, psiCalls, segues, responses, failures

mergeVars == <<files, idx, mergedData, target0, source0, step, errors>>

workerVars == <<now, tz, ticks, script, sp, request, taskSt, taskError, executions,
                merges, store, psiCalls, segues, responses, failures>>

\* extractLighthouseSummary on its own: the report handed in, the copy of it
\* taken before the call, the strategy, the outcome, and the objects the
\* summary holds by reference to the report.
VARIABLES lhReport, report0, mode, summary, shared

extractVars == <<lhReport, report0, mode, summary, shared>>

vars == <<mergeVars, workerVars, extractVars>>

\* No extraction asked yet.
NoSummary == [val |-> Undefined, thrown |-> FALSE, done |-> FALSE, touched |-> FALSE]

ExtractIdle ==
  /\ lhReport = Undefined /\ report0 = Undefined /\ mode = ""
  /\ summary = NoSummary /\ shared = {}

\* No date read yet.
NoDate == [time |-> 0, offset |-> 0]

\* A consolidation that has not started. last is the position in files of the
\* get fulfilled most recently (0: none yet).
IdleMerge ==
  [pc |-> "idle", files |-> <<>>, contents |-> <<>>, got |-> {}, last |-> 0,
   mergedFile |-> Undefined, date |-> NoDate, base |-> <<>>, simplifiedFile |-> Undefined]

\* The store holds nothing yet.
EmptyStore == [key \in {} |-> [body |-> <<>>, puts |-> 0]]

\* No task has arrived.
WorkerIdle ==
  /\ ticks = 0 /\ sp = 1 /\ request = Undefined
  /\ taskSt = "idle" /\ taskError = "" /\ executions = <<>>
  /\ merges = [s \in {"mobile", "desktop"} |-> IdleMerge]
  /\ store = EmptyStore
  /\ psiCalls = <<>> /\ segues = <<>> /\ responses = <<>> /\ failures = 0

\* mergeFiles(files) is entered: mergedData = {}, nothing merged yet.
InitMerge ==
  /\ files \in SeqsUpTo(MergeTexts, MaxFiles)
  /\ idx = 1
  /\ mergedData = EmptyObject
  /\ target0 = EmptyObject
  /\ source0 = Undefined
  /\ step = "start"
  /\ errors = 0
  /\ now = 0 /\ tz = 0 /\ script = <<>>
  /\ WorkerIdle
  /\ ExtractIdle

\* files[idx] parses and deepMerge returns: mergedData = deepMerge(...).
MergeFileOk ==
  /\ step # "returned" /\ idx <= Len(files)
  /\ ~mergeFile(mergedData, files[idx]).failed
  /\ mergedData' = mergeFile(mergedData, files[idx]).data
  /\ target0' = mergedData
  /\ source0' = JSONparse(files[idx]).val
  /\ step' = "merged"
  /\ idx' = idx + 1
  /\ UNCHANGED <<files, errors, workerVars, extractVars>>

\* files[idx] does not parse, or deepMerge throws: the catch logs and the
\* loop goes on with mergedData as the throw left it.
MergeFileCatch ==
  /\ step # "returned" /\ idx <= Len(files)
  /\ mergeFile(mergedData, files[idx]).failed
  /\ mergedData' = mergeFile(mergedData, files[idx]).data
  /\ target0' = mergedData
  /\ source0' = JSONparse(files[idx]).val
  /\ step' = IF JSONparse(files[idx]).ok THEN "threw" ELSE "unparsed"
  /\ errors' = errors + 1
  /\ idx' = idx + 1
  /\ UNCHANGED <<files, workerVars, extractVars>>

\* forEach is over: mergeFiles returns mergedData.
MergeReturn ==
  /\ step # "returned" /\ idx > Len(files)
  /\ step' = "returned"
  /\ UNCHANGED <<files, idx, mergedData, target0, source0, errors, workerVars, extractVars>>

NextMerge == MergeFileOk \/ MergeFileCatch \/ MergeReturn

SpecMerge == InitMerge /\ [][NextMerge]_vars

\* ------------------------------------------------------------- the worker

MaxFailures == 1

MaxTicks == 1

TickHours == 4

\* 2025-01-01T00:00Z.
NewYear == 366 * 24

\* The process starts on 2024-12-31T22:00Z, in one of three time zones.
Instants == {NewYear - 2}

TimeZones == {0 - 5, 0, 9}

Slug == <<"abc123">>

Url == <<"https://example.com">>

\* `${v}`
TemplateOf(v) == CASE v.k = "str" -> v.v
                   [] v.k = "num" -> <<FormatNum(v.v)>>
                   [] v.k = "leaf" -> <<v.v>>
                   [] v.k = "undef" -> <<"undefined">>
                   [] OTHER -> <<"[object Object]">>

\* A task request the workflow engine sends: the task's name, the playlist's
\* slug, metadata.url (Undefined: absent), and whether context.sequence
\* carries the output of the collect stage before it ("collected": what that
\* stage reported; "listed": the references refs; "none": no such stage).
\* The names Unparsable, Null and Scalar stand for a payload that is no JSON,
\* the payload null and the payload 1.
Item(name, url, seq) ==
  [name |-> name, slug |-> Slug, url |-> url, seq |-> seq, refs |-> <<>>]

\* A process task whose collect stage lists the given references.
ListedItem(refs) == [Item("AutostradaProcess", Str(Url), "listed") EXCEPT !.refs = refs]

Scripts ==
  { <<Item("AutostradaCollect", Str(Url), "none"), Item("AutostradaProcess", Str(Url), "collected")>>,
    <<Item("AutostradaCollect", Undefined, "none")>>,
    <<Item("AutostradaCollect", Str(<<>>), "none")>>,
    <<Item("AutostradaProcess", Str(Url), "none")>>,
    <<Item("Other", Str(Url), "none")>>,
    <<Item("Unparsable", Str(Url), "none")>>,
    <<Item("Null", Str(Url), "none")>>,
    <<Item("Scalar", Str(Url), "none")>> }

\* The last report of a collect.
LastCollected ==
  segues[CHOOSE i \in DOMAIN segues :
           /\ segues[i].operation = Str(<<"AutostradaCollect">>)
           /\ \A j \in DOMAIN segues :
                segues[j].operation = Str(<<"AutostradaCollect">>) => j <= i]

\* The stages before this one, as the engine hands them over: the collect
\* stage with the output it reported, parsed. The engine may send the
\* process stage again.
SequenceOf(item) ==
  CASE item.seq = "collected" ->
         Arr(<< Obj(<< <<"name", Str(<<"AutostradaCollect">>)>>,
                       <<"output", JSONparse(LastCollected.output).val>> >>) >>)
    [] item.seq = "listed" ->
         Arr(<< Obj(<< <<"name", Str(<<"AutostradaCollect">>)>>,
                       <<"output", Arr([i \in DOMAIN item.refs |-> Str(item.refs[i])])>> >>) >>)
    [] OTHER -> Arr(<<>>)

\* input.payload of the request.
PayloadOf(item) ==
  IF item.name = "Unparsable" THEN <<"{", "name", ":">>
  ELSE IF item.name = "Null" THEN <<"null">>
  ELSE IF item.name = "Scalar" THEN <<"1">>
  ELSE JSONstringify(
         Obj(<< <<"name", Str(<<item.name>>)>>,
                <<"playlist", Obj(<< <<"slug", Str(item.slug)>> >>)>>,
                <<"context", Obj(<< <<"metadata", Obj(<< <<"url", item.url>> >>)>>,
                                    <<"sequence", SequenceOf(item)>> >>)>> >>))

\* s3Client.send(new PutObjectCommand({Key, Body})) fulfilled.
Put(st, key, body) ==
  [k \in DOMAIN st \cup {key} |->
     IF k = key
       THEN [body |-> body, puts |-> IF key \in DOMAIN st THEN st[key].puts + 1 ELSE 1]
       ELSE st[k]]

\* Body of the put of runPageSpeedInsights, JSON.stringify(lighthouseResult),
\* tabulated over the calls a collect for Url makes.
Body == [u \in {Url}, c \in {categories[i] : i \in DOMAIN categories},
         s \in {strategies[i] : i \in DOMAIN strategies} |->
           JSONstringify(lighthouseResult(u, c, s))]

RawBody(u, c, s) ==
  IF <<u, c, s>> \in DOMAIN Body THEN Body[u, c, s] ELSE JSONstringify(lighthouseResult(u, c, s))

\* (category, strategy) of the i-th runPageSpeedInsights call of collect.
CategoryAt(i) == categories[(i - 1) \div Len(strategies) + 1]

StrategyAt(i) == strategies[((i - 1) % Len(strategies)) + 1]

Branches == 1..(Len(categories) * Len(strategies))

\* this.wiphalaService.segue({slug, output, operation})
Segue(req, output) ==
  [slug |-> Get(Get(req, "playlist"), "slug"), output |-> output, operation |-> Get(req, "name")]

\* The reduce of process with `if` in place of `else if`.
RECURSIVE bucketNoElse(_, _, _)
bucketNoElse(output, strategy, i) ==
  IF i > Len(output) THEN <<>>
  ELSE (IF includes(TemplateOf(output[i]), strategy) THEN <<TemplateOf(output[i])>> ELSE <<>>)
         \o bucketNoElse(output, strategy, i + 1)

\* files of one strategy, out of collectedData.output: the reduce of process.
RECURSIVE bucket(_, _, _)
bucket(output, strategy, i) ==
  IF i > Len(output) THEN <<>>
  ELSE LET current == TemplateOf(output[i])
           mine == IF strategy = "mobile" THEN includes(current, "mobile")
                   ELSE ~includes(current, "mobile") /\ includes(current, "desktop")
       IN (IF mine THEN <<current>> ELSE <<>>) \o bucket(output, strategy, i + 1)

\* request.context.sequence.find(item => item.name === 'AutostradaCollect')
RECURSIVE find(_, _)
find(sequence, i) ==
  IF i > Len(sequence) THEN Undefined
  ELSE IF Get(sequence[i], "name") = Str(<<"AutostradaCollect">>) THEN sequence[i]
  ELSE find(sequence, i + 1)

\* mergeOutputFiles once every content has arrived: the fold, the date and
\* the base path; the put of the consolidated file is sent.
AfterGets(m, slug, strategy) ==
  [m EXCEPT !.pc = "put_full",
            !.mergedFile = mergeFiles(m.contents),
            !.date = NewDate(now, tz),
            !.base = basePath(NewDate(now, tz), slug, strategy)]

\* mergeOutputFiles(slug, strategy, files) up to its first await that waits.
StartMerge(slug, strategy, fs) ==
  LET m == [IdleMerge EXCEPT !.pc = "getting", !.files = fs,
                             !.contents = [i \in 1..Len(fs) |-> <<>>]]
  IN IF fs = <<>> THEN AfterGets(m, slug, strategy) ELSE m

Init ==
  /\ files = <<>> /\ idx = 1 /\ mergedData = EmptyObject /\ target0 = EmptyObject
  /\ source0 = Undefined /\ step = "start" /\ errors = 0
  /\ now \in Instants /\ tz \in TimeZones /\ script \in Scripts
  /\ WorkerIdle
  /\ ExtractIdle

\* collect without the url check.
PerformCollectUnchecked(req) ==
  LET url == Get(Get(Get(req, "context"), "metadata"), "url")
  IN /\ taskSt' = "running"
     /\ taskError' = ""
     /\ executions' = [i \in Branches |->
                         [url |-> url, category |-> CategoryAt(i),
                          strategy |-> StrategyAt(i), st |-> "calling",
                          date |-> NoDate, key |-> <<>>]]
     /\ psiCalls' = psiCalls \o [i \in Branches |->
                                   [url |-> url, category |-> CategoryAt(i),
                                    strategy |-> StrategyAt(i)]]

\* collect(request), up to its first await: the url check, then the eight
\* runPageSpeedInsights calls, each of which sends its request to the provider.
PerformCollect(req) ==
  LET url == Get(Get(Get(req, "context"), "metadata"), "url")
  IN IF ~Truthy(url)
       THEN /\ taskSt' = "rejected"
            /\ taskError' = "URL is required in the event object."
            /\ UNCHANGED <<executions, psiCalls>>
       ELSE /\ taskSt' = "running"
            /\ taskError' = ""
            /\ executions' = [i \in Branches |->
                                [url |-> url, category |-> CategoryAt(i),
                                 strategy |-> StrategyAt(i), st |-> "calling",
                                 date |-> NoDate, key |-> <<>>]]
            /\ psiCalls' = psiCalls \o [i \in Branches |->
                                          [url |-> url, category |-> CategoryAt(i),
                                           strategy |-> StrategyAt(i)]]

\* process(request), up to its first await that waits: the partition and the
\* two mergeOutputFiles calls, each of which sends all its gets.
PerformProcess(req) ==
  LET collectedData == find(Elements(Get(Get(req, "context"), "sequence")), 1)
      output == Elements(OrElse(Opt(collectedData, "output"), Arr(<<>>)))
      slug   == TemplateOf(Get(Get(req, "playlist"), "slug"))
  IN /\ merges' = [s \in {"mobile", "desktop"} |-> StartMerge(slug, s, bucket(output, s, 1))]
     /\ taskSt' = "running"
     /\ taskError' = ""

\* performTask with a switch whose default routes to collect.
PerformTaskDefaultCollect ==
  /\ sp <= Len(script)
  /\ taskSt # "running"
  /\ script[sp].seq = "collected" =>
       /\ taskSt = "reported"
       /\ \E i \in DOMAIN segues : segues[i].operation = Str(<<"AutostradaCollect">>)
  /\ sp' = sp + 1
  /\ LET input == JSONparse(PayloadOf(script[sp]))
         name  == Get(input.val, "name")
     IN IF ~input.ok
          THEN /\ responses' = Append(responses, "SyntaxError")
               /\ UNCHANGED <<request, taskSt, taskError, executions, merges, psiCalls>>
          ELSE IF Nullish(input.val)
          THEN /\ responses' = Append(responses, "TypeError")
               /\ UNCHANGED <<request, taskSt, taskError, executions, merges, psiCalls>>
          ELSE /\ responses' = Append(responses, "success")
               /\ request' = input.val
               /\ CASE name = Str(<<"AutostradaProcess">>) ->
                         PerformProcess(input.val) /\ UNCHANGED <<executions, psiCalls>>
                    [] OTHER ->
                         PerformCollect(input.val) /\ UNCHANGED merges
  /\ UNCHANGED <<mergeVars, extractVars, now, tz, ticks, script, store, segues, failures>>

\* performTask(input): parse, route, answer {success: true}. A payload that
\* is no JSON throws at JSON.parse, the payload null at request.name.
PerformTask ==
  /\ sp <= Len(script)
  /\ taskSt # "running"
  /\ script[sp].seq = "collected" =>
       /\ taskSt = "reported"
       /\ \E i \in DOMAIN segues : segues[i].operation = Str(<<"AutostradaCollect">>)
  /\ sp' = sp + 1
  /\ LET input == JSONparse(PayloadOf(script[sp]))
         name  == Get(input.val, "name")
     IN IF ~input.ok
          THEN /\ responses' = Append(responses, "SyntaxError")
               /\ UNCHANGED <<request, taskSt, taskError, executions, merges, psiCalls>>
          ELSE IF Nullish(input.val)
          THEN /\ responses' = Append(responses, "TypeError")
               /\ UNCHANGED <<request, taskSt, taskError, executions, merges, psiCalls>>
          ELSE /\ responses' = Append(responses, "success")
               /\ request' = input.val
               /\ CASE name = Str(<<"AutostradaCollect">>) ->
                         PerformCollect(input.val) /\ UNCHANGED merges
                    [] name = Str(<<"AutostradaProcess">>) ->
                         PerformProcess(input.val) /\ UNCHANGED <<executions, psiCalls>>
                    [] OTHER ->
                         /\ taskSt' = "ignored"
                         /\ UNCHANGED <<taskError, executions, merges, psiCalls>>
  /\ UNCHANGED <<mergeVars, extractVars, now, tz, ticks, script, store, segues, failures>>

\* The provider answers call i: the date is read, the key built, the put sent.
PsiResolve ==
  \E i \in DOMAIN executions :
    /\ executions[i].st = "calling"
    /\ executions' = [executions EXCEPT
         ![i].st = "putting",
         ![i].date = NewDate(now, tz),
         ![i].key = rawKey(NewDate(now, tz), TemplateOf(Get(Get(request, "playlist"), "slug")),
                           executions[i].category, executions[i].strategy)]
    /\ UNCHANGED <<mergeVars, extractVars, now, tz, ticks, script, sp, request, taskSt, taskError,
                   merges, store, psiCalls, segues, responses, failures>>

\* The keys in the reverse of the order of executions.
resultsReversed(ex) == [j \in DOMAIN ex |-> Str(ex[Len(ex) + 1 - j].key)]

\* results of collect: what Promise.all(executions) fulfils with, the keys in
\* the order of executions.
results(ex) == [j \in DOMAIN ex |-> Str(ex[j].key)]

\* Promise.any in place of Promise.all: fulfilled with the first key.
CollectDoneAny(ex) == \E i \in DOMAIN ex : ex[i].st = "resolved"

\* Promise.all(executions) is fulfilled: every call has returned its key.
CollectDone(ex) == \A i \in DOMAIN ex : ex[i].st = "resolved"

\* The put of call i is fulfilled: runPageSpeedInsights returns its key; with
\* the last of the eight, collect reports.
PutRawResolve ==
  \E i \in DOMAIN executions :
    /\ executions[i].st = "putting"
    /\ executions' = [executions EXCEPT ![i].st = "resolved"]
    /\ store' = Put(store, executions[i].key,
                    RawBody(TemplateOf(executions[i].url), executions[i].category, executions[i].strategy))
    /\ IF CollectDone(executions') /\ taskSt = "running"
         THEN /\ segues' = Append(segues,
                     Segue(request, JSONstringify(Arr(results(executions')))))
              /\ taskSt' = "reported"
         ELSE UNCHANGED <<segues, taskSt>>
    /\ UNCHANGED <<mergeVars, extractVars, now, tz, ticks, script, sp, request, taskError,
                   merges, psiCalls, responses, failures>>

\* Promise.allSettled in place of Promise.all: a failed call counts as
\* settled, without a key, and collect reports once all have settled.
BranchRejectSettled ==
  \E i \in DOMAIN executions :
    /\ failures < MaxFailures
    /\ executions[i].st \in {"calling", "putting"}
    /\ executions' = [executions EXCEPT ![i].st = "resolved", ![i].date = NoDate, ![i].key = <<>>]
    /\ failures' = failures + 1
    /\ IF CollectDone(executions') /\ taskSt = "running"
         THEN /\ segues' = Append(segues,
                     Segue(request, JSONstringify(Arr(results(executions')))))
              /\ taskSt' = "reported"
         ELSE UNCHANGED <<segues, taskSt>>
    /\ UNCHANGED <<mergeVars, extractVars, now, tz, ticks, script, sp, request, taskError,
                   merges, store, psiCalls, responses>>

\* The provider call or the put of call i fails: Promise.all rejects with the
\* first failure and collect rethrows; the call returns no key; the other
\* calls run on.
BranchReject ==
  \E i \in DOMAIN executions :
    /\ failures < MaxFailures
    /\ executions[i].st \in {"calling", "putting"}
    /\ executions' = [executions EXCEPT ![i].st = "rejected", ![i].date = NoDate, ![i].key = <<>>]
    /\ failures' = failures + 1
    /\ IF taskSt = "running"
         THEN /\ taskSt' = "rejected"
              /\ taskError' = "Error triggering PageSpeed Insights Worker"
         ELSE UNCHANGED <<taskSt, taskError>>
    /\ UNCHANGED <<mergeVars, extractVars, now, tz, ticks, script, sp, request,
                   merges, store, psiCalls, segues, responses>>

\* A mergeOutputFiles call that has rejected: its locals are gone.
RejectedMerge == [IdleMerge EXCEPT !.pc = "rejected"]

\* A mergeOutputFiles call rejects: Promise.all of process rejects with the
\* first rejection, and process with it.
ProcessRejects ==
  IF taskSt = "running"
    THEN taskSt' = "rejected" /\ taskError' = "mergeOutputFiles rejected"
    ELSE UNCHANGED <<taskSt, taskError>>

\* A get is fulfilled and its body goes to the next free place of contents:
\* contents in the order the gets complete.
GetResolveArrival ==
  \E s \in DOMAIN merges : \E i \in DOMAIN merges[s].files :
    /\ merges[s].pc = "getting"
    /\ i \notin merges[s].got
    /\ merges[s].files[i] \in DOMAIN store
    /\ LET m == [merges[s] EXCEPT !.got = @ \cup {i}, !.last = i,
                                  !.contents[Cardinality(merges[s].got) + 1] =
                                     store[merges[s].files[i]].body]
       IN merges' = [merges EXCEPT
            ![s] = IF m.got = DOMAIN m.files
                     THEN AfterGets(m, TemplateOf(Get(Get(request, "playlist"), "slug")), s)
                     ELSE m]
    /\ UNCHANGED <<mergeVars, extractVars, now, tz, ticks, script, sp, request, taskSt, taskError,
                   executions, store, psiCalls, segues, responses, failures>>

\* getOutputFileFromS3(files[i]) of one strategy is fulfilled with the stored
\* body; contents keeps the position of files. With the last get, the fold.
GetResolve ==
  \E s \in DOMAIN merges : \E i \in DOMAIN merges[s].files :
    /\ merges[s].pc = "getting"
    /\ i \notin merges[s].got
    /\ merges[s].files[i] \in DOMAIN store
    /\ LET m == [merges[s] EXCEPT !.got = @ \cup {i}, !.last = i,
                                  !.contents[i] = store[merges[s].files[i]].body]
       IN merges' = [merges EXCEPT
            ![s] = IF m.got = DOMAIN m.files
                     THEN AfterGets(m, TemplateOf(Get(Get(request, "playlist"), "slug")), s)
                     ELSE m]
    /\ UNCHANGED <<mergeVars, extractVars, now, tz, ticks, script, sp, request, taskSt, taskError,
                   executions, store, psiCalls, segues, responses, failures>>

\* A get fails: the key is not in the store, or the store fails.
GetReject ==
  \E s \in DOMAIN merges : \E i \in DOMAIN merges[s].files :
    /\ merges[s].pc = "getting"
    /\ i \notin merges[s].got
    /\ \/ merges[s].files[i] \notin DOMAIN store /\ UNCHANGED failures
       \/ failures < MaxFailures /\ failures' = failures + 1
    /\ merges' = [merges EXCEPT ![s] = RejectedMerge]
    /\ ProcessRejects
    /\ UNCHANGED <<mergeVars, extractVars, now, tz, ticks, script, sp, request,
                   executions, store, psiCalls, segues, responses>>

\* mergeOutputFiles with a second `new Date()` read for the path of the
\* simplified file.
PutFullResolveRedated ==
  \E s \in DOMAIN merges :
    /\ merges[s].pc = "put_full"
    /\ store' = Put(store, fullKey(merges[s].base), JSONstringify(merges[s].mergedFile))
    /\ LET r == extractLighthouseSummary(merges[s].mergedFile, s)
       IN IF r.thrown
            THEN merges' = [merges EXCEPT ![s] = RejectedMerge] /\ ProcessRejects
            ELSE /\ merges' = [merges EXCEPT
                      ![s].pc = "put_min", ![s].simplifiedFile = r.val,
                      ![s].date = NewDate(now, tz),
                      ![s].base = basePath(NewDate(now, tz),
                                           TemplateOf(Get(Get(request, "playlist"), "slug")), s)]
                 /\ UNCHANGED <<taskSt, taskError>>
    /\ UNCHANGED <<mergeVars, extractVars, now, tz, ticks, script, sp, request,
                   executions, psiCalls, segues, responses, failures>>

\* The put of <base>.json is fulfilled; the summary is extracted and the put
\* of <base>.min.json sent, unless the extraction throws.
PutFullResolve ==
  \E s \in DOMAIN merges :
    /\ merges[s].pc = "put_full"
    /\ store' = Put(store, fullKey(merges[s].base), JSONstringify(merges[s].mergedFile))
    /\ LET r == extractLighthouseSummary(merges[s].mergedFile, s)
       IN IF r.thrown
            THEN merges' = [merges EXCEPT ![s] = RejectedMerge] /\ ProcessRejects
            ELSE /\ merges' = [merges EXCEPT ![s].pc = "put_min", ![s].simplifiedFile = r.val]
                 /\ UNCHANGED <<taskSt, taskError>>
    /\ UNCHANGED <<mergeVars, extractVars, now, tz, ticks, script, sp, request,
                   executions, psiCalls, segues, responses, failures>>

\* What mergeOutputFiles returns.
MergeResult(m) ==
  Obj(<< <<"simplifiedFile", m.simplifiedFile>>,
         <<"files", Obj(<< <<"full", Str(fullKey(m.base))>>, <<"min", Str(minKey(m.base))>> >>)>> >>)

\* The results with desktop first.
processResultsReversed(ms) == <<MergeResult(ms["desktop"]), MergeResult(ms["mobile"])>>

\* [mobile, desktop] of process: what Promise.all fulfils with, the results in
\* the order of the two mergeOutputFiles calls.
processResults(ms) == <<MergeResult(ms["mobile"]), MergeResult(ms["desktop"])>>

\* The put of <base>.min.json is fulfilled: mergeOutputFiles returns; with
\* the second of the two, process reports [mobile, desktop].
PutMinResolve ==
  \E s \in DOMAIN merges :
    /\ merges[s].pc = "put_min"
    /\ store' = Put(store, minKey(merges[s].base), JSONstringify(merges[s].simplifiedFile))
    /\ merges' = [merges EXCEPT ![s].pc = "resolved"]
    /\ IF (\A t \in DOMAIN merges : merges'[t].pc = "resolved") /\ taskSt = "running"
         THEN /\ segues' = Append(segues,
                     Segue(request, JSONstringify(Arr(processResults(merges')))))
              /\ taskSt' = "reported"
         ELSE UNCHANGED <<segues, taskSt>>
    /\ UNCHANGED <<mergeVars, extractVars, now, tz, ticks, script, sp, request, taskError,
                   executions, psiCalls, responses, failures>>

\* A put of mergeOutputFiles fails.
PutReject ==
  \E s \in DOMAIN merges :
    /\ failures < MaxFailures
    /\ merges[s].pc \in {"put_full", "put_min"}
    /\ merges' = [merges EXCEPT ![s] = RejectedMerge]
    /\ failures' = failures + 1
    /\ ProcessRejects
    /\ UNCHANGED <<mergeVars, extractVars, now, tz, ticks, script, sp, request,
                   executions, store, psiCalls, segues, responses>>

\* Time passes, over the turn of the year: after a task has arrived, and not
\* while provider calls of a collect are in flight.
Tick ==
  /\ ticks < MaxTicks
  /\ sp > 1
  /\ \A i \in DOMAIN executions : executions[i].st \in {"resolved", "rejected"}
  /\ now' = now + TickHours
  /\ ticks' = ticks + 1
  /\ UNCHANGED <<mergeVars, extractVars, tz, script, sp, request, taskSt, taskError, executions,
                 merges, store, psiCalls, segues, responses, failures>>

Next ==
  \/ PerformTask
  \/ PsiResolve
  \/ PutRawResolve
  \/ BranchReject
  \/ GetResolve
  \/ GetReject
  \/ PutFullResolve
  \/ PutMinResolve
  \/ PutReject
  \/ Tick

Spec == Init /\ [][Next]_vars

\* ----------------------------------------------- the partition of process

MaxRefs == 3

\* References: with "mobile", with "desktop", with both in either order, with
\* neither.
References ==
  { <<"scans/", "a", ".", "mobile", ".json">>,
    <<"scans/", "a", ".", "desktop", ".json">>,
    <<"mobile", "-", "desktop">>,
    <<"desktop", "-", "mobile">>,
    <<"other", ".json">> }

\* One process task arrives, with any list of up to MaxRefs references.
InitPartition ==
  /\ files = <<>> /\ idx = 1 /\ mergedData = EmptyObject /\ target0 = EmptyObject
  /\ source0 = Undefined /\ step = "start" /\ errors = 0
  /\ now \in Instants /\ tz = 0
  /\ script \in {<<ListedItem(refs)>> : refs \in SeqsUpTo(References, MaxRefs)}
  /\ WorkerIdle
  /\ ExtractIdle

\* process runs up to the end of its reduce and the calls it makes with the
\* two buckets.
NextPartition == PerformTask

SpecPartition == InitPartition /\ [][NextPartition]_vars

\* -------------------------------------------------- a process run twice

\* A collect, its process, and the same process delivered once more.
RepeatScript ==
  <<Item("AutostradaCollect", Str(Url), "none"), Item("AutostradaProcess", Str(Url), "collected"),
    Item("AutostradaProcess", Str(Url), "collected")>>

InitRepeat ==
  /\ files = <<>> /\ idx = 1 /\ mergedData = EmptyObject /\ target0 = EmptyObject
  /\ source0 = Undefined /\ step = "start" /\ errors = 0
  /\ now \in Instants /\ tz = 0 /\ script = RepeatScript
  /\ WorkerIdle
  /\ ExtractIdle

SpecRepeat == InitRepeat /\ [][Next]_vars

\* ------------------------------------ a process over artifacts in the store

\* process alone: the task arrives, and its gets and puts settle.
NextProcess ==
  \/ PerformTask
  \/ GetResolve
  \/ GetReject
  \/ PutFullResolve
  \/ PutMinResolve
  \/ PutReject
  \/ Tick

\* A stored body that is no JSON: an object cut short.
CorruptText == <<"{", "\"", "fetchTime", "\"", ":">>

\* The raw artifacts an earlier collect left for Slug: two of the mobile
\* bucket, one of the desktop bucket.
StoredArtifacts ==
  << [category |-> "performance", strategy |-> "mobile"],
     [category |-> "seo", strategy |-> "mobile"],
     [category |-> "performance", strategy |-> "desktop"] >>

StoredKey(a, date) == rawKey(date, Slug, a.category, a.strategy)

\* The reference lists of the process: every artifact, or one per strategy.
StoredLists == { <<1, 2, 3>>, <<1, 3>> }

\* The store holds the artifacts, any of them corrupt, and a process task
\* arrives that lists them.
InitCorrupt ==
  /\ files = <<>> /\ idx = 1 /\ mergedData = EmptyObject /\ target0 = EmptyObject
  /\ source0 = Undefined /\ step = "start" /\ errors = 0
  /\ now \in Instants /\ tz = 0
  /\ ticks = 0 /\ sp = 1 /\ request = Undefined
  /\ taskSt = "idle" /\ taskError = "" /\ executions = <<>>
  /\ merges = [s \in {"mobile", "desktop"} |-> IdleMerge]
  /\ psiCalls = <<>> /\ segues = <<>> /\ responses = <<>> /\ failures = 0
  /\ \E corrupt \in SUBSET DOMAIN StoredArtifacts :
       store = [key \in {StoredKey(StoredArtifacts[i], NewDate(now, tz)) : i \in DOMAIN StoredArtifacts} |->
                  LET i == CHOOSE j \in DOMAIN StoredArtifacts :
                             StoredKey(StoredArtifacts[j], NewDate(now, tz)) = key
                  IN [body |-> IF i \in corrupt THEN CorruptText
                               ELSE RawBody(Url, StoredArtifacts[i].category, StoredArtifacts[i].strategy),
                      puts |-> 1]]
  /\ \E list \in StoredLists :
       script = <<ListedItem([j \in DOMAIN list |-> StoredKey(StoredArtifacts[list[j]], NewDate(now, tz))])>>
  /\ ExtractIdle

SpecCorrupt == InitCorrupt /\ [][NextProcess]_vars

\* ------------------------------------------ a process for slugs of any text

\* Slugs: without a strategy name in it, with "mobile", with "desktop".
Slugs == { Slug, <<"mobile", "-", "app">>, <<"desktop", "-", "site">> }

\* results of a collect for the slug, all of whose calls read the same date:
\* the eight keys in the order of executions.
CollectedKeys(slug, date) ==
  [i \in Branches |-> rawKey(date, slug, CategoryAt(i), StrategyAt(i))]

\* A collect for one of the slugs has written its eight artifacts, and the
\* process task that lists them arrives.
InitSlug ==
  /\ files = <<>> /\ idx = 1 /\ mergedData = EmptyObject /\ target0 = EmptyObject
  /\ source0 = Undefined /\ step = "start" /\ errors = 0
  /\ now \in Instants /\ tz = 0
  /\ ticks = 0 /\ sp = 1 /\ request = Undefined
  /\ taskSt = "idle" /\ taskError = "" /\ executions = <<>>
  /\ merges = [s \in {"mobile", "desktop"} |-> IdleMerge]
  /\ psiCalls = <<>> /\ segues = <<>> /\ responses = <<>> /\ failures = 0
  /\ \E slug \in Slugs :
       LET keys == CollectedKeys(slug, NewDate(now, tz))
       IN /\ store = [key \in {keys[i] : i \in Branches} |->
                        LET i == CHOOSE j \in Branches : keys[j] = key
                        IN [body |-> RawBody(Url, CategoryAt(i), StrategyAt(i)), puts |-> 1]]
          /\ script = <<[ListedItem(keys) EXCEPT !.slug = slug]>>
  /\ ExtractIdle

SpecSlug == InitSlug /\ [][NextProcess]_vars

\* ------------------------------------------ extractLighthouseSummary alone

\* lhReport.runWarnings of the reports of SpecExtract: absent, empty, one warning.
RunWarningsParts == {Undefined, Arr(<<>>), Arr(<<Str(<<"slow">>)>>)}

Scored(s) == Obj(<< <<"score", s>> >>)

\* lhReport.categories: none, one, all four with scores that differ, and
\* categories without a score or with a null one.
CategoriesParts ==
  { EmptyObject,
    Obj(<< <<"performance", Scored(Num(87))>> >>),
    Obj(<< <<"performance", Scored(Num(50))>>, <<"accessibility", Scored(Num(0))>>,
           <<"best-practices", Scored(Num(25))>>, <<"seo", Scored(Num(100))>> >>),
    Obj(<< <<"seo", EmptyObject>>, <<"performance", Scored(Null)>>,
           <<"best-practices", Scored(Num(90))>> >>) }

Resource(type, size) ==
  Obj((IF type = "" THEN <<>> ELSE << <<"resourceType", Str(<<type>>)>> >>)
      \o (IF size < 0 THEN <<>> ELSE << <<"transferSize", Whole(size)>> >>))

ResourceAudit(items) == Obj(<< <<"details", Obj(<< <<"items", Arr(items)>> >>)>> >>)

\* lhReport.audits['resource-summary']: absent, without details, without
\* items, and with items that repeat a type, lack a size or lack a type.
ResourceParts ==
  { Undefined,
    EmptyObject,
    ResourceAudit(<<>>),
    ResourceAudit(<<Resource("script", 10), Resource("image", 20), Resource("script", 5)>>),
    ResourceAudit(<<Resource("script", 0 - 1), Resource("", 7), Resource("font", 0),
                    Resource("script", 4)>>) }

DiagnosticAudit ==
  <<"dom-size", Obj(<< <<"title", Str(<<"DOM">>)>>,
                       <<"details", Obj(<< <<"type", Str(<<"diagnostic">>)>>,
                                           <<"items", Arr(<<>>)>> >>)>> >>)>>

OpportunityAudit ==
  <<"render-blocking", Obj(<< <<"title", Str(<<"Blocking">>)>>,
                              <<"details", Obj(<< <<"type", Str(<<"opportunity">>)>>,
                                                  <<"overallSavingsMs", Whole(15)>> >>)>> >>)>>

TimingAudits ==
  << <<"metrics", Obj(<< <<"details", Obj(<< <<"items",
                           Arr(<<Obj(<< <<"timeToFirstByte", Whole(2)>> >>)>>)>> >>)>> >>)>>,
     <<"first-contentful-paint", Obj(<< <<"numericValue", Whole(9)>> >>)>> >>

\* The other audits of lhReport.audits: none, a diagnostic, an opportunity,
\* both next to the audits the timings read.
OtherAuditsParts ==
  { <<>>, <<DiagnosticAudit>>, <<OpportunityAudit>>,
    TimingAudits \o <<OpportunityAudit, DiagnosticAudit>> }

Report(rw, cats, rs, others) ==
  Obj((IF rw = Undefined THEN <<>> ELSE << <<"runWarnings", rw>> >>)
      \o << <<"lighthouseVersion", Str(<<"12">>)>>,
            <<"environment", Obj(<< <<"networkUserAgent", Str(<<"ua">>)>> >>)>>,
            <<"categories", cats>>,
            <<"audits", Obj((IF rs = Undefined THEN <<>> ELSE << <<"resource-summary", rs>> >>)
                            \o others)>>,
            <<"configSettings", Obj(<< <<"locale", Str(<<"en">>)>> >>)>>,
            <<"timing", EmptyObject>> >>)

\* The reports handed to extractLighthouseSummary in SpecExtract, the report of
\* an empty fold and one without categories among them.
Reports ==
  {Report(rw, cats, rs, others) : rw \in RunWarningsParts, cats \in CategoriesParts,
                                   rs \in ResourceParts, others \in OtherAuditsParts}
  \cup {EmptyObject, Obj(<< <<"audits", EmptyObject>>,
                            <<"environment", EmptyObject>> >>)}

\* The objects of the summary that are objects of the report: `a || b` and a
\* property read give the object itself, an object literal or the result of
\* map and reduce is a new one.
Alias(field, audit) == [field |-> field, audit |-> audit]

sharedWithInput(report) ==
  LET rw    == Get(report, "runWarnings")
      diags == AuditsOfType(Get(report, "audits"), "diagnostic", 1)
  IN (IF IsArray(rw) \/ IsNonArrayObject(rw) THEN {Alias("runWarnings", "")} ELSE {})
     \cup {Alias("details", diags[i][1]) : i \in 1..Len(diags)}

InitExtract ==
  /\ files = <<>> /\ idx = 1 /\ mergedData = EmptyObject /\ target0 = EmptyObject
  /\ source0 = Undefined /\ step = "start" /\ errors = 0
  /\ now = 0 /\ tz = 0 /\ script = <<>>
  /\ WorkerIdle
  /\ lhReport \in Reports
  /\ report0 = lhReport
  /\ mode \in {strategies[i] : i \in DOMAIN strategies}
  /\ summary = NoSummary
  /\ shared = {}

\* extractLighthouseSummary(lhReport, mode) returns or throws.
Extract ==
  /\ ~summary.done
  /\ LET r == extractLighthouseSummary(lhReport, mode)
     IN /\ summary' = [val |-> r.val, thrown |-> r.thrown, done |-> TRUE, touched |-> FALSE]
        /\ shared' = IF r.thrown THEN {} ELSE sharedWithInput(lhReport)
  /\ UNCHANGED <<mergeVars, workerVars, lhReport, report0, mode>>

\* A later write through the summary: one more element in its runWarnings.
\* The write lands in the report when the array is the report's own.
TouchRunWarnings ==
  /\ summary.done /\ ~summary.thrown /\ ~summary.touched
  /\ LET rw     == Get(summary.val, "runWarnings")
         pushed == [rw EXCEPT !.v[1] = Append(@, Str(<<"later">>))]
     IN /\ IsArray(rw)
        /\ summary' = [summary EXCEPT !.val = Set(@, "runWarnings", pushed), !.touched = TRUE]
        /\ lhReport' = IF Alias("runWarnings", "") \in shared
                         THEN Set(lhReport, "runWarnings", pushed) ELSE lhReport
  /\ UNCHANGED <<mergeVars, workerVars, report0, mode, shared>>

\* A later write through the summary: a property set on the details of one
\* diagnostic.
TouchDetails ==
  /\ summary.done /\ ~summary.thrown /\ ~summary.touched
  /\ \E i \in 1..Len(Elements(Get(summary.val, "diagnostics"))) :
       LET diags   == Get(summary.val, "diagnostics")
           d       == Elements(diags)[i]
           key     == Get(d, "id").v[1]
           marked  == Set(Get(d, "details"), "seen", Leaf("true"))
           audits  == Get(lhReport, "audits")
       IN /\ summary' = [summary EXCEPT
                           !.val = Set(@, "diagnostics",
                                       [diags EXCEPT !.v[1][i] = Set(d, "details", marked)]),
                           !.touched = TRUE]
          /\ lhReport' = IF Alias("details", key) \in shared
                           THEN Set(lhReport, "audits",
                                    Set(audits, key, Set(Get(audits, key), "details", marked)))
                           ELSE lhReport
  /\ UNCHANGED <<mergeVars, workerVars, report0, mode, shared>>

\* A later write through the summary: a property set on the breakdown, which
\* reduce built from a new object.
TouchBreakdown ==
  /\ summary.done /\ ~summary.thrown /\ ~summary.touched
  /\ LET rs     == Get(summary.val, "resourceSummary")
         marked == Set(Get(rs, "breakdown"), "seen", Leaf("true"))
     IN summary' = [summary EXCEPT !.val = Set(@, "resourceSummary", Set(rs, "breakdown", marked)),
                                   !.touched = TRUE]
  /\ UNCHANGED <<mergeVars, workerVars, lhReport, report0, mode, shared>>

NextExtract ==
  \/ Extract
  \/ TouchRunWarnings
  \/ TouchDetails
  \/ TouchBreakdown

SpecExtract == InitExtract /\ [][NextExtract]_vars

\* ------------------------------------------------- claims about the merge

RECURSIVE SameDoc(_, _)
\* The same JSON document, whatever the order of the keys.
SameDoc(u, v) ==
  /\ u.k = v.k
  /\ CASE IsPrimitive(u) -> u.v = v.v
       [] u.k = "arr" -> /\ Len(u.v[1]) = Len(v.v[1])
                         /\ \A i \in 1..Len(u.v[1]) : SameDoc(u.v[1][i], v.v[1][i])
                         /\ KeysOf(u) = KeysOf(v)
                         /\ \A key \in KeysOf(u) : SameDoc(Get(u, key), Get(v, key))
       [] u.k = "obj" -> /\ KeysOf(u) = KeysOf(v)
                         /\ \A key \in KeysOf(u) : SameDoc(Get(u, key), Get(v, key))
       [] OTHER -> TRUE

\* The last step was a call deepMerge(target0, source0) on a parsed object.
MergedObject == step \in {"merged", "threw"} /\ IsNonArrayObject(source0)

ParsedObject(file) == JSONparse(file).ok /\ IsNonArrayObject(JSONparse(file).val)

\* A key both documents hold as scalars of different values.
SharedScalarKeys(A, B) ==
  {key \in KeysOf(A) \cap KeysOf(B) :
     /\ IsLeaf(Get(A, key)) /\ Get(A, key) # Null
     /\ IsLeaf(Get(B, key)) /\ Get(B, key) # Null
     /\ Get(A, key) # Get(B, key)}

\* C1: after deepMerge(target, source) the target holds the source's value at
\* every key whose source value is a scalar, null or an array, and folding
\* two documents that share a scalar key gives the later document's value.
C1_LastWriterWins ==
  /\ MergedObject =>
       \A key \in KeysOf(source0) :
         ~IsNonArrayObject(Get(source0, key)) => Get(mergedData, key) = Get(source0, key)
  /\ (step = "returned" /\ Len(files) = 2 /\ ParsedObject(files[1]) /\ ParsedObject(files[2])) =>
       \A key \in SharedScalarKeys(JSONparse(files[1]).val, JSONparse(files[2]).val) :
         Get(mergedData, key) = Get(JSONparse(files[2]).val, key)

RECURSIVE Combined(_, _, _)
\* r holds every sub-key of t and s: the source's value where s has the key
\* (combined again where both hold objects), the target's value otherwise.
Combined(t, s, r) ==
  /\ IsNonArrayObject(r)
  /\ \A q \in KeysOf(t) \cup KeysOf(s) :
       IF HasKey(s, q)
         THEN IF IsNonArrayObject(Get(t, q)) /\ IsNonArrayObject(Get(s, q))
                THEN Combined(Get(t, q), Get(s, q), Get(r, q))
                ELSE SameDoc(Get(r, q), Get(s, q))
         ELSE SameDoc(Get(r, q), Get(t, q))

\* C2: where target and source both hold a non-array object at a key, the
\* merged value at that key combines the two, at every depth.
C2_RecursiveCombination ==
  MergedObject =>
    \A key \in KeysOf(source0) \cap KeysOf(target0) :
      (IsNonArrayObject(Get(target0, key)) /\ IsNonArrayObject(Get(source0, key)))
        => Combined(Get(target0, key), Get(source0, key), Get(mergedData, key))

\* C3: deepMerge(target, source) returns without throwing for every pair of
\* JSON objects.
C3_DeepMergeTotal == MergedObject => step = "merged"

RECURSIVE ValidOnly(_)
\* The list with every text that is not valid JSON removed.
ValidOnly(fs) ==
  IF fs = <<>> THEN <<>>
  ELSE (IF JSONparse(Head(fs)).ok THEN <<Head(fs)>> ELSE <<>>) \o ValidOnly(Tail(fs))

\* C4: a text that does not parse neither aborts nor alters the fold: after
\* every iteration, and when the loop returns having visited every text, what
\* is merged is what mergeFiles gives on the valid texts alone, in their order.
C4_ParseFailureSkipped ==
  /\ mergedData = mergeFiles(ValidOnly(SubSeq(files, 1, idx - 1)))
  /\ step = "returned" => idx = Len(files) + 1

\* Documents before and after an unparsable text are both in the result.
C4_Witness ==
  /\ step = "returned" /\ Len(files) = 3 /\ errors = 1
  /\ ParsedObject(files[1]) /\ ~JSONparse(files[2]).ok /\ ParsedObject(files[3])
  /\ HasKey(Get(mergedData, "a"), "x") /\ HasKey(Get(mergedData, "a"), "y")

RECURSIVE ShapeClash(_, _)
\* Some key path holds a non-array object in one document and a scalar or
\* null in the other.
ShapeClash(u, v) ==
  \E key \in KeysOf(u) \cap KeysOf(v) :
    \/ IsNonArrayObject(Get(u, key)) /\ IsLeaf(Get(v, key))
    \/ IsLeaf(Get(u, key)) /\ IsNonArrayObject(Get(v, key))
    \/ /\ IsNonArrayObject(Get(u, key)) /\ IsNonArrayObject(Get(v, key))
       /\ ShapeClash(Get(u, key), Get(v, key))

\* merge(merge({},A), merge(merge({},B),C))
MergeRight(A, B, C) ==
  LET a  == deepMerge(EmptyObject, A)
      b  == deepMerge(EmptyObject, B)
      bc == deepMerge(b.val, C)
      r  == deepMerge(a.val, bc.val)
  IN [val |-> r.val, thrown |-> a.thrown \/ b.thrown \/ bc.thrown \/ r.thrown]

\* mergeFiles has folded three object documents A, B, C from {}.
FoldedThree ==
  /\ step = "returned" /\ Len(files) = 3
  /\ \A i \in 1..3 : ParsedObject(files[i])

DocAt(i) == JSONparse(files[i]).val

\* C5 as claimed: folding A, B, C gives the document that merging A with the
\* merge of B and C gives, whatever the shapes (compared where no merge threw).
C5_Associative ==
  (FoldedThree /\ errors = 0 /\ ~MergeRight(DocAt(1), DocAt(2), DocAt(3)).thrown)
    => SameDoc(mergedData, MergeRight(DocAt(1), DocAt(2), DocAt(3)).val)

\* C5 amended: the two groupings agree, and neither throws, when no key path
\* holds a non-array object in one input and a scalar or null in another.
C5_AssociativeSameShape ==
  (/\ FoldedThree
   /\ \A i, j \in 1..3 : ~ShapeClash(DocAt(i), DocAt(j)))
    => /\ errors = 0
       /\ ~MergeRight(DocAt(1), DocAt(2), DocAt(3)).thrown
       /\ SameDoc(mergedData, MergeRight(DocAt(1), DocAt(2), DocAt(3)).val)

\* Three inputs of one shape whose sub-objects the fold has combined, one of
\* them holding null where another holds a scalar.
C5_Witness ==
  /\ FoldedThree
  /\ \A i, j \in 1..3 : ~ShapeClash(DocAt(i), DocAt(j))
  /\ DocAt(1) # DocAt(2) /\ DocAt(2) # DocAt(3)
  /\ HasKey(Get(mergedData, "a"), "x") /\ HasKey(Get(mergedData, "a"), "y")
  /\ IsArray(Get(Get(mergedData, "a"), "x"))

\* ------------------------------------------------ claims about the worker

\* The documents of a consolidation's references, in the order of the list.
ListedContents(m) == [i \in DOMAIN m.files |-> store[m.files[i]].body]

\* C6: whatever order the gets of mergeOutputFiles complete in, the merged
\* report is the fold of the documents in the order their references are
\* listed.
C6_FoldInListOrder ==
  \A s \in DOMAIN merges :
    merges[s].mergedFile # Undefined =>
      merges[s].mergedFile = mergeFiles(ListedContents(merges[s]))

\* The document listed first arrived last, and the fold still ends with the
\* document listed last.
C6_Witness ==
  \E s \in DOMAIN merges :
    /\ merges[s].pc = "resolved"
    /\ Len(merges[s].files) = Len(categories)
    /\ merges[s].last = 1
    /\ Get(merges[s].mergedFile, "fetchTime") = Str(<<"t-", categories[Len(categories)]>>)

\* The category a raw key names.
categoryOf(key) == key[Len(key) - 3]

\* The categories in the order collect issues its calls.
IssueOrder == <<"performance", "seo", "accessibility", "best-practices">>

\* The references of every consolidation name the categories in this order
\* and the last of them supplies fetchTime, which every document sets.
FoldedInOrder(order) ==
  \A s \in DOMAIN merges :
    merges[s].files # <<>> =>
      /\ Len(merges[s].files) = Len(order)
      /\ \A i \in DOMAIN merges[s].files : categoryOf(merges[s].files[i]) = order[i]
      /\ merges[s].mergedFile # Undefined =>
           Get(merges[s].mergedFile, "fetchTime") = Str(<<"t-", order[Len(order)]>>)

\* C7 as claimed: the documents of a strategy are merged in ascending order
\* of category name, so seo, which sorts last, supplies the final value.
C7_CategoryAscending == FoldedInOrder(categoriesAscending)

\* C7: the documents of a strategy are merged in the order collect issued the
\* calls (performance, seo, accessibility, best-practices), so best-practices
\* supplies the final value of a key several categories set.
C7_IssueOrder == FoldedInOrder(IssueOrder)

\* A consolidation of the four documents of a strategy is through, with the
\* fetchTime of best-practices and not that of seo.
C7_Witness ==
  \E s \in DOMAIN merges :
    /\ merges[s].pc = "resolved"
    /\ Len(merges[s].files) = Len(IssueOrder)
    /\ Get(merges[s].mergedFile, "fetchTime") = Str(<<"t-", "best-practices">>)
    /\ Get(merges[s].mergedFile, "fetchTime") # Str(<<"t-", "seo">>)

\* scans/<year>/<month>/<slug>.<category>.<strategy>.json
KeyForm(key, slug, category, strategy) ==
  \E y \in 2024..2025, m \in 1..12 :
    key = <<"scans/", ToString(y), "/", ToString(m), "/">> \o slug
            \o <<".", category, ".", strategy, ".json">>

\* The task in hand is a collect, and it has reported.
CollectReported ==
  taskSt = "reported" /\ Get(request, "name") = Str(<<"AutostradaCollect">>)

\* The list of keys of the last report.
ReportedKeys == Elements(JSONparse(segues[Len(segues)].output).val)

\* C8: a successful collect has issued 8 provider calls, one per (category,
\* strategy), has written one raw artifact per call, and reports 8 pairwise
\* distinct keys of the form scans/<year>/<month>/<slug>.<category>.<strategy>.json,
\* the i-th being the key of the i-th call issued.
C8_EightKeysInIssueOrder ==
  CollectReported =>
    /\ Len(psiCalls) = 8
    /\ \A i \in DOMAIN categories, j \in DOMAIN strategies :
         Cardinality({n \in DOMAIN psiCalls : /\ psiCalls[n].category = categories[i]
                                              /\ psiCalls[n].strategy = strategies[j]}) = 1
    /\ Len(ReportedKeys) = 8
    /\ \A i, j \in DOMAIN ReportedKeys : i # j => ReportedKeys[i] # ReportedKeys[j]
    /\ \A i \in DOMAIN ReportedKeys :
         /\ ReportedKeys[i].k = "str"
         /\ KeyForm(ReportedKeys[i].v, Slug, psiCalls[i].category, psiCalls[i].strategy)
    /\ DOMAIN store = {ReportedKeys[i].v : i \in DOMAIN ReportedKeys}
    /\ \A key \in DOMAIN store : store[key].puts = 1

\* A collect has reported its eight keys and the store holds eight artifacts.
C8_Witness ==
  /\ CollectReported
  /\ Len(ReportedKeys) = 8
  /\ Cardinality(DOMAIN store) = 8
  /\ ReportedKeys[1] = Str(executions[1].key)
  /\ executions[1].category = "performance" /\ executions[1].strategy = "mobile"

\* The key carries the UTC year and the UTC month, 1 to 12, of the date.
UTCStamped(key, date) ==
  /\ key[2] = ToString(getUTCFullYear(date))
  /\ key[4] = ToString(getUTCMonth(date) + 1)

\* C9 as claimed: every key written, raw, consolidated or simplified, carries
\* the UTC year and the UTC month of the date it was built from, in every
\* time zone.
C9_UTCYearMonth ==
  /\ \A i \in DOMAIN executions :
       executions[i].st = "resolved" =>
         /\ executions[i].key \in DOMAIN store
         /\ UTCStamped(executions[i].key, executions[i].date)
  /\ \A s \in DOMAIN merges :
       /\ merges[s].pc \in {"put_min", "resolved"} =>
            /\ fullKey(merges[s].base) \in DOMAIN store
            /\ UTCStamped(fullKey(merges[s].base), merges[s].date)
       /\ merges[s].pc = "resolved" =>
            /\ minKey(merges[s].base) \in DOMAIN store
            /\ UTCStamped(minKey(merges[s].base), merges[s].date)

\* request.context.metadata.url
UrlOf(req) == Get(Get(Get(req, "context"), "metadata"), "url")

\* The task in hand is a collect whose url is absent or empty.
CollectWithoutUrl ==
  /\ request # Undefined
  /\ Get(request, "name") = Str(<<"AutostradaCollect">>)
  /\ ~Truthy(UrlOf(request))

\* C10: a collect without url rejects at once with the precondition error and
\* does no work: no provider call, no key written, no report.
C10_NoUrlNoWork ==
  CollectWithoutUrl =>
    /\ taskSt = "rejected"
    /\ taskError = "URL is required in the event object."
    /\ psiCalls = <<>> /\ executions = <<>>
    /\ store = EmptyStore
    /\ segues = <<>>

\* A collect whose metadata has no url has been answered and has rejected.
C10_Witness ==
  /\ CollectWithoutUrl
  /\ UrlOf(request) = Undefined
  /\ taskSt = "rejected"
  /\ responses = <<"success">>

\* The task in hand is a process, and it has reported.
ProcessReported ==
  taskSt = "reported" /\ Get(request, "name") = Str(<<"AutostradaProcess">>)

\* Every branch of the task in hand has succeeded and its keys are stored:
\* the eight calls and raw puts of a collect, the gets, folds and two puts of
\* both consolidations of a process.
FanOutComplete(req, ex, ms, st) ==
  IF Get(req, "name") = Str(<<"AutostradaCollect">>)
    THEN /\ Len(ex) = Len(categories) * Len(strategies)
         /\ \A i \in DOMAIN ex : ex[i].st = "resolved" /\ ex[i].key \in DOMAIN st
    ELSE \A s \in DOMAIN ms :
           /\ ms[s].pc = "resolved"
           /\ fullKey(ms[s].base) \in DOMAIN st /\ minKey(ms[s].base) \in DOMAIN st

\* C11: there are never more reports than tasks, and a report is sent only in
\* the step that ends a running task, one report in that step, when every
\* branch of the task has succeeded; a task that has reported or rejected
\* sends nothing more.
C11_ReportOnceAfterAll ==
  /\ [](Len(segues) <= sp - 1)
  /\ [][segues' # segues =>
          /\ segues' = Append(segues, segues'[Len(segues')])
          /\ segues'[Len(segues')].operation = Get(request, "name")
          /\ taskSt = "running" /\ taskSt' = "reported" /\ request' = request
          /\ FanOutComplete(request, executions', merges', store')]_vars

\* A collect and the process after it have each reported once.
C11_Witness ==
  /\ ProcessReported
  /\ Len(segues) = 2
  /\ segues[1].operation = Str(<<"AutostradaCollect">>)
  /\ segues[2].operation = Str(<<"AutostradaProcess">>)
  /\ FanOutComplete(request, executions, merges, store)

\* C12 as claimed: when the task in hand has failed, the caller sees it: the
\* response performTask gave for it is not success, or a report went
\* downstream for it (every task so far has one).
C12_FailureVisible ==
  taskSt = "rejected" =>
    \/ responses[Len(responses)] # "success"
    \/ Len(segues) = sp - 1

\* The sequence ends with the given pieces.
EndsWith(seq, suffix) ==
  /\ Len(seq) >= Len(suffix)
  /\ SubSeq(seq, Len(seq) - Len(suffix) + 1, Len(seq)) = suffix

\* collectedData.output of the request, as process reads it.
CollectedOutput(req) ==
  Elements(OrElse(Opt(find(Elements(Get(Get(req, "context"), "sequence")), 1), "output"), Arr(<<>>)))

\* The results of the last report.
ReportedResults == Elements(JSONparse(segues[Len(segues)].output).val)

\* C13: a process given the 8 raw keys of a collect that has reported has
\* sent 2 results, mobile first and desktop second; each carries a simplified
\* report whose mode is its strategy and the keys full, ending in
\* <slug>.<strategy>.json, and min, the same path ending in .min.json; both
\* keys are in the store.
C13_TwoResultsInOrder ==
  (ProcessReported /\ Len(CollectedOutput(request)) = 8) =>
    /\ Len(ReportedResults) = 2
    /\ \A i \in DOMAIN ReportedResults :
         LET full == Get(Get(ReportedResults[i], "files"), "full")
             min  == Get(Get(ReportedResults[i], "files"), "min")
         IN /\ Get(Get(ReportedResults[i], "simplifiedFile"), "mode") = Str(<<strategies[i]>>)
            /\ full.k = "str" /\ min.k = "str"
            /\ EndsWith(full.v, Slug \o <<".", strategies[i], ".json">>)
            /\ min.v = SubSeq(full.v, 1, Len(full.v) - 1) \o <<".min.json">>
            /\ full.v \in DOMAIN store /\ min.v \in DOMAIN store

\* A process of eight keys has reported its two results; the store holds the
\* eight raw artifacts and the four it wrote.
C13_Witness ==
  /\ ProcessReported
  /\ Len(CollectedOutput(request)) = 8
  /\ Len(ReportedResults) = 2
  /\ Get(Get(ReportedResults[1], "simplifiedFile"), "mode") = Str(<<"mobile">>)
  /\ Get(Get(ReportedResults[2], "simplifiedFile"), "mode") = Str(<<"desktop">>)
  /\ Cardinality(DOMAIN store) = 12

\* The task in hand is a process whose reference list gives the strategy none.
EmptyBucket(s) ==
  /\ request # Undefined
  /\ Get(request, "name") = Str(<<"AutostradaProcess">>)
  /\ bucket(CollectedOutput(request), s, 1) = <<>>

\* C14 as claimed: for a strategy without references process writes no
\* consolidated or simplified artifact, and the task does not fail.
C14_EmptyBucketIdle ==
  \A i \in DOMAIN strategies :
    EmptyBucket(strategies[i]) =>
      /\ taskSt # "rejected"
      /\ \A key \in DOMAIN store :
           /\ ~EndsWith(key, Slug \o <<".", strategies[i], ".json">>)
           /\ ~EndsWith(key, Slug \o <<".", strategies[i], ".min.json">>)

\* The references of the request, as strings.
Listed == [i \in DOMAIN CollectedOutput(request) |-> TemplateOf(CollectedOutput(request)[i])]

\* sub lists elements of seq in the order seq has them.
InOrderOf(sub, seq) ==
  \E f \in [DOMAIN sub -> DOMAIN seq] :
    /\ \A i, j \in DOMAIN sub : i < j => f[i] < f[j]
    /\ \A i \in DOMAIN sub : sub[i] = seq[f[i]]

\* process has partitioned the references of the request.
Partitioned ==
  /\ request # Undefined /\ Get(request, "name") = Str(<<"AutostradaProcess">>)
  /\ \A s \in DOMAIN merges : merges[s].pc \in {"getting", "put_full"}

\* C15: the two buckets share no reference; a reference with neither "mobile"
\* nor "desktop" is in neither and every other reference is in one; each
\* bucket lists its references in the order of the input; the input is as it
\* was given.
C15_PartitionDisjoint ==
  Partitioned =>
    LET mobileFiles  == merges["mobile"].files
        desktopFiles == merges["desktop"].files
    IN /\ \A i \in DOMAIN mobileFiles, j \in DOMAIN desktopFiles :
            mobileFiles[i] # desktopFiles[j]
       /\ \A i \in DOMAIN Listed :
            (~includes(Listed[i], "mobile") /\ ~includes(Listed[i], "desktop")) =>
              /\ \A j \in DOMAIN mobileFiles : mobileFiles[j] # Listed[i]
              /\ \A j \in DOMAIN desktopFiles : desktopFiles[j] # Listed[i]
       /\ Len(mobileFiles) + Len(desktopFiles) =
            Cardinality({i \in DOMAIN Listed :
                           includes(Listed[i], "mobile") \/ includes(Listed[i], "desktop")})
       /\ InOrderOf(mobileFiles, Listed) /\ InOrderOf(desktopFiles, Listed)
       /\ Listed = script[1].refs

\* Three references are partitioned: one with both words went to mobile
\* alone, one with neither went nowhere, one went to desktop.
C15_Witness ==
  /\ Partitioned
  /\ Len(Listed) = 3
  /\ \E i \in DOMAIN Listed : includes(Listed[i], "mobile") /\ includes(Listed[i], "desktop")
  /\ \E i \in DOMAIN Listed : ~includes(Listed[i], "mobile") /\ ~includes(Listed[i], "desktop")
  /\ Len(merges["mobile"].files) = 1 /\ Len(merges["desktop"].files) = 1

\* C16 as claimed: no storage key receives more than one put.
C16_CreateOnly == \A key \in DOMAIN store : store[key].puts <= 1

\* The defaults of a summary drawn from a report without optional audits and
\* categories.
ZeroDefaults(val) ==
  /\ \A f \in {"performance", "accessibility", "bestPractices", "seo"} : Get(val, f) = Num(0)
  /\ \A t \in {"TTFB", "FCP", "LCP", "DCL", "SI", "CLS", "TBT", "TTI"} :
        Get(Get(val, "timings"), t) = Num(0)
  /\ Get(val, "opportunities") = Arr(<<>>)
  /\ Get(val, "diagnostics") = Arr(<<>>)
  /\ Get(Get(val, "resourceSummary"), "totalRequests") = Num(0)
  /\ Get(val, "totalAuditTime") = Num(0)

\* C17: summary extraction is total with zero defaults: on every merged report
\* the fold produces, extractLighthouseSummary returns without throwing, and
\* when the report has no audit and no category the scores and timings are 0,
\* opportunities and diagnostics are empty, totalRequests and totalAuditTime
\* are 0.
C17_ExtractionTotal ==
  \A s \in DOMAIN merges :
    merges[s].mergedFile # Undefined =>
      LET r == extractLighthouseSummary(merges[s].mergedFile, s)
      IN /\ ~r.thrown
         /\ (/\ Entries(Get(merges[s].mergedFile, "audits")) = <<>>
             /\ Entries(Get(merges[s].mergedFile, "categories")) = <<>>) => ZeroDefaults(r.val)

\* ------------------------------------------- claims about the extraction

Extracted == summary.done /\ ~summary.thrown

\* The output score fields and the category each one is read from.
ScoreFields ==
  { <<"performance", "performance">>, <<"accessibility", "accessibility">>,
    <<"bestPractices", "best-practices">>, <<"seo", "seo">> }

\* C18: each of the four output scores is 100 times the score of its own
\* category in the report handed in, and 0 when the category or its score is
\* absent; none is taken from another category.
C18_OwnCategoryTimes100 ==
  Extracted =>
    \A f \in ScoreFields :
      LET cat == Get(Get(report0, "categories"), f[2])
          sc  == IF cat.k = "obj" THEN Get(cat, "score") ELSE Undefined
      IN Get(summary.val, f[1]) = IF sc.k = "num" THEN Num(100 * sc.v) ELSE Num(0)

\* A report with four different category scores was summarised: 0.5, 0, 0.25
\* and 1 came out as 50, 0, 25 and 100.
C18_Witness ==
  /\ Extracted
  /\ Get(Get(Get(report0, "categories"), "best-practices"), "score") = Num(25)
  /\ Get(Get(Get(report0, "categories"), "seo"), "score") = Num(100)
  /\ Get(summary.val, "performance") = Whole(50)
  /\ Get(summary.val, "accessibility") = Whole(0)
  /\ Get(summary.val, "bestPractices") = Whole(25)
  /\ Get(summary.val, "seo") = Whole(100)

\* The detail items of the resource-summary audit of the report handed in.
ResourceItems == Elements(Get(Get(Get(Get(report0, "audits"), "resource-summary"), "details"), "items"))

\* The transfer size of item i, in hundredths; 0 when the item has none.
SizeOf(i) == LET t == Get(ResourceItems[i], "transferSize") IN IF t.k = "num" THEN t.v ELSE 0

RECURSIVE SizeOver(_)
\* The sum of the transfer sizes of a set of items.
SizeOver(S) == IF S = {} THEN 0 ELSE LET i == CHOOSE j \in S : TRUE IN SizeOf(i) + SizeOver(S \ {i})

\* The items whose resourceType is the given one; the items that have one.
OfType(t) == {i \in DOMAIN ResourceItems : Get(ResourceItems[i], "resourceType") = Str(<<t>>)}

Typed == {i \in DOMAIN ResourceItems : Get(ResourceItems[i], "resourceType").k = "str"}

RECURSIVE CountOver(_, _)
\* The sum of the counts of the entries of a breakdown, from entry i on.
CountOver(bd, i) ==
  IF i > Len(Entries(bd)) THEN 0 ELSE Get(Entries(bd)[i][2], "count").v + CountOver(bd, i + 1)

\* C19: when the report has a resource-summary audit,
\* totalRequests is the number of items, totalTransferSize the sum of their
\* transferSize (0 for an item without one), breakdown has one entry per
\* distinct resourceType holding the number of items of that type and the sum
\* of their sizes, items without a type are in no entry, and the counts add up
\* to the number of typed items, which is at most totalRequests.
C19_ResourceSummary ==
  (Extracted /\ ~summary.touched
     /\ HasKey(Get(report0, "audits"), "resource-summary")) =>
    LET rs == Get(summary.val, "resourceSummary")
        bd == Get(rs, "breakdown")
    IN /\ Get(rs, "totalRequests") = Whole(Len(ResourceItems))
       /\ Get(rs, "totalTransferSize") = Num(SizeOver(DOMAIN ResourceItems))
       /\ KeysOf(bd) = {Get(ResourceItems[i], "resourceType").v[1] : i \in Typed}
       /\ Len(Entries(bd)) = Cardinality(KeysOf(bd))
       /\ \A t \in KeysOf(bd) :
            /\ Get(Get(bd, t), "count") = Whole(Cardinality(OfType(t)))
            /\ Get(Get(bd, t), "size") = Num(SizeOver(OfType(t)))
       /\ CountOver(bd, 1) = 100 * Cardinality(Typed)
       /\ CountOver(bd, 1) <= Get(rs, "totalRequests").v

\* Four items were summarised: two scripts of which one has no size, a font
\* and an item without a type; the script entry counts 2 and weighs 4, three
\* items are typed out of four requests and the total size is 11.
C19_Witness ==
  /\ Extracted /\ ~summary.touched
  /\ Len(ResourceItems) = 4
  /\ Cardinality(Typed) = 3
  /\ Get(Get(summary.val, "resourceSummary"), "totalRequests") = Whole(4)
  /\ Get(Get(summary.val, "resourceSummary"), "totalTransferSize") = Whole(11)
  /\ Get(Get(Get(summary.val, "resourceSummary"), "breakdown"), "script")
       = Obj(<< <<"size", Whole(4)>>, <<"count", Whole(2)>> >>)
  /\ KeysOf(Get(Get(summary.val, "resourceSummary"), "breakdown")) = {"script", "font"}

\* C20: the summary shares no structure with the report: the call leaves the
\* report as it was, no array or object of the summary (runWarnings, the
\* details of a diagnostic, the breakdown) is an object of the report, and a
\* later change of the summary never changes the report.
C20_NoSharedStructure ==
  /\ summary.done => shared = {}
  /\ lhReport = report0

\* ------------------------------------- claims about failures and ordering

\* C21: a stored artifact that is no valid JSON does not abort the
\* consolidation, whatever the size of its bucket, the bucket of that one
\* artifact included: unless a get or a put fails, process does not reject.
C21_CorruptDegrades == failures = 0 => taskSt # "rejected"

CollectRunning == Get(request, "name") = Str(<<"AutostradaCollect">>)

\* C22: a provider or storage failure aborts the task without a report: once
\* a provider call or a put of a collect, or a get or a put of a process, has
\* failed, no report of that task is sent, in that state or in any later one,
\* whatever the other branches complete and write.
C22_NoReportAfterFailure ==
  failures > 0 => \A i \in DOMAIN segues : segues[i].operation # Get(request, "name")

\* One call of a collect failed, the seven others have written their keys,
\* and nothing was reported.
C22_Witness ==
  /\ CollectRunning /\ failures = 1 /\ taskSt = "rejected"
  /\ Cardinality({i \in DOMAIN executions : executions[i].st = "resolved"}) = 7
  /\ Cardinality(DOMAIN store) = 7
  /\ segues = <<>>

RECURSIVE WrittenFor(_, _, _)
\* The keys collect wrote for one strategy, out of its eight, in their order.
WrittenFor(keys, strategy, i) ==
  IF i > Len(keys) THEN <<>>
  ELSE (IF StrategyAt(i) = strategy THEN <<keys[i]>> ELSE <<>>) \o WrittenFor(keys, strategy, i + 1)

\* C23: the partition recovers the strategy of every key collect wrote, for
\* every slug, one that contains "mobile" or "desktop" included: the files of
\* each strategy's consolidation are the four keys written for that strategy.
C23_StrategyRecovered ==
  \A s \in DOMAIN merges :
    (merges[s].pc # "idle" /\ merges[s].pc # "rejected") =>
      merges[s].files = WrittenFor(script[1].refs, s, 1)

\* <path>.min.json and the <path>.json beside it.
IsMinKey(key) == Len(key) > 0 /\ key[Len(key)] = ".min.json"

SiblingOf(key) == SubSeq(key, 1, Len(key) - 1) \o <<".json">>

\* C24: a simplified artifact <slug>.<strategy>.min.json is in the store only
\* if the consolidated <slug>.<strategy>.json of the same year/month path is;
\* a consolidation has put its merged document before it extracts the summary
\* and sends the put of the summary, and both keys come from the one date
\* the consolidation read.
C24_FullBeforeMin ==
  /\ \A key \in DOMAIN store : IsMinKey(key) => SiblingOf(key) \in DOMAIN store
  /\ \A s \in DOMAIN merges :
       /\ merges[s].pc \in {"getting", "put_full"} => merges[s].simplifiedFile = Undefined
       /\ merges[s].pc \in {"put_full", "put_min", "resolved"} =>
            merges[s].base = basePath(merges[s].date, TemplateOf(Get(Get(request, "playlist"), "slug")), s)
       /\ merges[s].pc \in {"put_min", "resolved"} =>
            /\ merges[s].simplifiedFile # Undefined
            /\ fullKey(merges[s].base) \in DOMAIN store
       /\ merges[s].pc = "resolved" => minKey(merges[s].base) \in DOMAIN store

\* Both strategies were consolidated, the year turning between the date
\* readings of the two: each pair of keys lies under its own reading's path.
C24_Witness ==
  /\ ProcessReported /\ ticks = 1
  /\ merges["mobile"].date # merges["desktop"].date
  /\ \A s \in DOMAIN merges :
       /\ merges[s].pc = "resolved"
       /\ fullKey(merges[s].base) \in DOMAIN store
       /\ minKey(merges[s].base) \in DOMAIN store
  /\ SubSeq(merges["mobile"].base, 1, 5) # SubSeq(merges["desktop"].base, 1, 5)

\* One performTask call: the answer it gives is the one expected of the
\* payload, nothing of the task has completed when it returns (no stored
\* object, no report, every provider call and every consolidation at its
\* first request), and a name that is neither collect nor process starts
\* nothing.
AnswersWithoutWaiting(expected(_)) ==
  responses' # responses =>
    LET input == JSONparse(PayloadOf(script[sp]))
        name  == Get(input.val, "name")
    IN /\ responses' = Append(responses, expected(input))
       /\ store' = store /\ segues' = segues
       /\ (input.ok /\ name = Str(<<"AutostradaCollect">>)) =>
            \A i \in DOMAIN executions' : executions'[i].st = "calling"
       /\ (input.ok /\ name = Str(<<"AutostradaProcess">>)) =>
            \A s \in DOMAIN merges' : merges'[s].pc \in {"getting", "put_full"}
       /\ (~input.ok \/ (/\ name # Str(<<"AutostradaCollect">>)
                         /\ name # Str(<<"AutostradaProcess">>))) =>
            UNCHANGED <<executions, merges, psiCalls>>

\* A task of another name has had no effect.
IgnoredIdle ==
  taskSt = "ignored" =>
    /\ psiCalls = <<>> /\ executions = <<>> /\ segues = <<>> /\ store = EmptyStore
    /\ \A s \in DOMAIN merges : merges[s] = IdleMerge

SuccessIfParsed(input) == IF input.ok THEN "success" ELSE "SyntaxError"

SuccessIfObject(input) ==
  IF ~input.ok THEN "SyntaxError" ELSE IF input.val = Null THEN "TypeError" ELSE "success"

\* C25 as claimed: performTask answers {success: true} for every payload that
\* parses as JSON, returns before any provider call, storage operation or
\* report of the task has completed, and starts no work for a name other than
\* AutostradaCollect and AutostradaProcess.
C25_SuccessForEveryParsed ==
  /\ []IgnoredIdle
  /\ [][AnswersWithoutWaiting(SuccessIfParsed)]_vars

\* C25 amended: the same, for every payload that parses to a JSON value other
\* than null; on the payload null performTask throws a TypeError and starts
\* nothing.
C25_SuccessForNonNull ==
  /\ []IgnoredIdle
  /\ [][AnswersWithoutWaiting(SuccessIfObject)]_vars

\* performTask has answered a collect whose eight provider calls are all
\* still out: nothing stored, nothing reported.
C25_Witness ==
  /\ responses = <<"success">> /\ CollectRunning /\ taskSt = "running"
  /\ Len(executions) = 8 /\ \A i \in DOMAIN executions : executions[i].st = "calling"
  /\ store = EmptyStore /\ segues = <<>>
====
